---- MODULE Spec2Model ----
(***************************************************************************)
(* Model of tws-auto-trader: the order-parameter calculator, the order     *)
(* helpers and covered-call entry points, and the price resolvers, as they *)
(* are written in src/.                                                     *)
(*                                                                         *)
(* Money is an integer number of mills (1/1000 USD), so a reference price  *)
(* can carry one decimal more than the cent the calculator rounds to.      *)
(* Rates (slippage, stop and take-profit percentages) are integers in      *)
(* basis points (1/10000).  Python floats are modelled as exact rationals; *)
(* NaN, +inf and None are separate tagged values.                          *)
(***************************************************************************)
EXTENDS Integers, Sequences, FiniteSets, TLC

VARIABLES
    cRef, cBps, cStop, cTake, cOut,          \* decide_lmt_stop_take: inputs and result
    op, res, nextId,                         \* order entry points: last call, what it did, venue id counter
    pc, fetch, subs,                         \* price resolvers: position, the fetch in progress, open subscriptions
    sel,                                     \* the selection or connection call in progress: function, inputs, result
    job_q, job_res, worker, ui, writers      \* background jobs: queue, status records, worker and UI threads, who wrote a record

calcVars == <<cRef, cBps, cStop, cTake, cOut>>
ordVars == <<op, res, nextId>>
priceVars == <<pc, fetch, subs>>
selVars == <<sel>>
jobVars == <<job_q, job_res, worker, ui, writers>>
vars == <<calcVars, ordVars, priceVars, selVars, jobVars>>

(***************************************************************************)
(* Python values                                                           *)
(***************************************************************************)
Num(x) == [k |-> "num", v |-> x]
NaN == [k |-> "nan", v |-> 0]
Inf == [k |-> "inf", v |-> 0]
None == [k |-> "none", v |-> 0]

\* math.isfinite(x) for a float x
IsFinite(x) == x.k = "num"
\* x > 0 (False for NaN)
Gt0(x) == (x.k = "num" /\ x.v > 0) \/ x.k = "inf"
\* x <= 0 (False for NaN)
Le0(x) == x.k = "num" /\ x.v <= 0
\* bool(x): None and 0 are falsy, NaN and inf are truthy
Truthy(x) == ~(x.k = "none" \/ (x.k = "num" /\ x.v = 0))

\* Python's `a or b`
PyOr(a, b) == IF Truthy(a) THEN a ELSE b

\* round(n/d, 2-decimals grid) to the nearest integer, ties to even, as Python's round()
RoundHalfEven(n, d) ==
    LET q == n \div d
        r == n % d
    IN  IF 2 * r < d THEN q
        ELSE IF 2 * r > d THEN q + 1
        ELSE IF q % 2 = 0 THEN q ELSE q + 1

MillsPerCent == 10
BpsOne == 10000

\* round(mills * factorBps / 10000, 2), in mills
RoundCents(mills, factorBps) ==
    MillsPerCent * RoundHalfEven(mills * factorBps, BpsOne * MillsPerCent)

(***************************************************************************)
(* src/src/ib/orders.py: decide_lmt_stop_take                              *)
(***************************************************************************)
\* a variant that leaves the slippage out of the limit
decide_lmt_stop_take_noslip(reference_price, slippage_bps, stop_pct, take_profit_pct) ==
    [lmt |-> RoundCents(reference_price, BpsOne),
     stp |-> RoundCents(reference_price, BpsOne - stop_pct),
     tpf |-> IF take_profit_pct = None THEN None
             ELSE Num(RoundCents(reference_price, BpsOne + take_profit_pct.v))]

decide_lmt_stop_take(reference_price, slippage_bps, stop_pct, take_profit_pct) ==
    [lmt |-> RoundCents(reference_price, BpsOne + slippage_bps),
     stp |-> RoundCents(reference_price, BpsOne - stop_pct),
     tpf |-> IF take_profit_pct = None THEN None
             ELSE Num(RoundCents(reference_price, BpsOne + take_profit_pct.v))]

(***************************************************************************)
(* Inputs of the calculator                                                *)
(***************************************************************************)
RefSpan == 12
CalcRefs == (1000 .. 1000 + RefSpan) \cup {4, 10, 100000, 120000, 43210}
CalcBps == {0, 1, 15, 50}
CalcStops == {40, 100, 600, 700, 1000}
CalcTakes == {None, Num(1000)}
\* calls: how many times the calculator has been called with these arguments
MaxCalls == 2
NotComputed == [lmt |-> 0, stp |-> 0, tpf |-> None, done |-> FALSE, calls |-> 0]

(***************************************************************************)
(* Orders and the venue client                                             *)
(***************************************************************************)
\* ib_insync Order() defaults: no OCA group, parentId 0, transmit True, orderId 0
Order0 ==
    [sec |-> "", symbol |-> "", action |-> "", orderType |-> "", totalQuantity |-> 0,
     lmtPrice |-> None, auxPrice |-> None, ocaGroup |-> "", parentId |-> 0,
     transmit |-> TRUE, orderId |-> 0, tif |-> ""]

\* What an operation has done so far: orders constructed, orders sent, the venue's id counter
Ctx0(id) == [nextId |-> id, sent |-> <<>>, built |-> <<>>, log |-> <<>>]

Built(ctx, o) == [ctx EXCEPT !.built = Append(@, o)]

\* log.info / log.warning: the kind of line written, not its text
Logged(ctx, line) == [ctx EXCEPT !.log = Append(@, line)]

\* ib.placeOrder: the venue assigns the next order id to an order that has none
placeOrder(ctx, o) ==
    LET id == IF o.orderId = 0 THEN ctx.nextId ELSE o.orderId
        o2 == [o EXCEPT !.orderId = id]
    IN  [ctx |-> [ctx EXCEPT !.nextId = IF o.orderId = 0 THEN @ + 1 ELSE @,
                             !.sent = Append(@, o2),
                             !.built = [i \in 1 .. Len(@) |-> IF @[i] = o THEN o2 ELSE @[i]]],
         order |-> o2]

(***************************************************************************)
(* src/src/ib/orders.py: market, limit_, stop_pct, bracket_buy_with_stop   *)
(***************************************************************************)
_maybe_transmit(order, dry_run) == [order EXCEPT !.transmit = ~dry_run]

market(ctx, spec, action, qty, dry_run, oca_group) ==
    LET o == _maybe_transmit(
                 [Order0 EXCEPT !.sec = "STK", !.symbol = spec, !.orderType = "MKT",
                                !.action = action, !.totalQuantity = qty,
                                !.ocaGroup = oca_group], dry_run)
    IN  IF dry_run THEN [ctx |-> Logged(Built(ctx, o), "STOCK MKT"), ret |-> o]
        ELSE LET p == placeOrder(Built(ctx, o), o) IN [ctx |-> p.ctx, ret |-> p.order]

limit_(ctx, spec, action, qty, lmt_price, dry_run, oca_group) ==
    LET o == _maybe_transmit(
                 [Order0 EXCEPT !.sec = "STK", !.symbol = spec, !.orderType = "LMT",
                                !.action = action, !.totalQuantity = qty,
                                !.lmtPrice = Num(lmt_price), !.ocaGroup = oca_group], dry_run)
    IN  IF dry_run THEN [ctx |-> Logged(Built(ctx, o), "STOCK LMT"), ret |-> o]
        ELSE LET p == placeOrder(Built(ctx, o), o) IN [ctx |-> p.ctx, ret |-> p.order]

\* side_for_stop "" stands for the omitted argument (long position, SELL stop)
stop_pct(ctx, spec, qty, reference_price, pct, side_for_stop, dry_run, oca_group) ==
    LET action == IF side_for_stop # "" THEN side_for_stop ELSE "SELL"
        stop_price == IF action = "SELL" THEN RoundCents(reference_price, BpsOne - pct)
                      ELSE RoundCents(reference_price, BpsOne + pct)
        o == _maybe_transmit(
                 [Order0 EXCEPT !.sec = "STK", !.symbol = spec, !.orderType = "STP",
                                !.action = action, !.totalQuantity = qty,
                                !.auxPrice = Num(stop_price), !.ocaGroup = oca_group], dry_run)
    IN  IF dry_run THEN [ctx |-> Logged(Built(ctx, o), "STOCK STP"), ret |-> o]
        ELSE LET p == placeOrder(Built(ctx, o), o) IN [ctx |-> p.ctx, ret |-> p.order]

\* the parent LimitOrder / MarketOrder("BUY", ...) and the child StopOrder("SELL", ...)
BracketParent(spec, qty, entry_type, lmt_price, tif) ==
    [Order0 EXCEPT !.sec = "STK", !.symbol = spec, !.action = "BUY",
                   !.orderType = entry_type, !.totalQuantity = qty, !.tif = tif,
                   !.lmtPrice = IF entry_type = "LMT" THEN Num(lmt_price) ELSE @]

\* a variant of the child that carries a generated OCA group
BracketChild_oca(spec, qty, stop_price, tif) ==
    [Order0 EXCEPT !.sec = "STK", !.symbol = spec, !.action = "SELL",
                   !.orderType = "STP", !.totalQuantity = qty, !.tif = tif,
                   !.auxPrice = Num(stop_price), !.ocaGroup = "OCA_uuid"]

BracketChild(spec, qty, stop_price, tif) ==
    [Order0 EXCEPT !.sec = "STK", !.symbol = spec, !.action = "SELL",
                   !.orderType = "STP", !.totalQuantity = qty, !.tif = tif,
                   !.auxPrice = Num(stop_price)]

\* child.parentId = parent_trade.order.orderId; ib.placeOrder(c, child)
SendChild(ctx, child, parentId) ==
    LET child2 == [child EXCEPT !.parentId = parentId]
    IN  placeOrder([ctx EXCEPT !.built = [i \in 1 .. Len(@) |->
                                            IF @[i] = child THEN child2 ELSE @[i]]], child2)

\* a variant that ignores dry_run
bracket_buy_with_stop_nodry(ctx, spec, qty, entry_type, lmt_price, stop_price, tif, dry_run) ==
    LET parent == BracketParent(spec, qty, entry_type, lmt_price, tif)
        child == BracketChild(spec, qty, stop_price, tif)
        p == placeOrder(Built(Built(ctx, parent), child), parent)
        q == SendChild(p.ctx, child, p.order.orderId)
    IN  [ctx |-> q.ctx, parent |-> p.order, child |-> q.order, trade |-> p.order.orderId]

\* a variant that sends the child without the parent's id
bracket_buy_with_stop_nolink(ctx, spec, qty, entry_type, lmt_price, stop_price, tif, dry_run) ==
    LET parent == BracketParent(spec, qty, entry_type, lmt_price, tif)
        child == BracketChild(spec, qty, stop_price, tif)
        c0 == Built(Built(ctx, parent), child)
    IN  IF dry_run THEN [ctx |-> c0, parent |-> parent, child |-> child, trade |-> 0]
        ELSE LET p == placeOrder(c0, parent)
                 q == placeOrder(p.ctx, child)
             IN  [ctx |-> q.ctx, parent |-> p.order, child |-> q.order,
                  trade |-> p.order.orderId]

\* returns (parent, child, parent_trade or None); trade 0 stands for None
bracket_buy_with_stop(ctx, spec, qty, entry_type, lmt_price, stop_price, tif, dry_run) ==
    LET parent == BracketParent(spec, qty, entry_type, lmt_price, tif)
        child == BracketChild(spec, qty, stop_price, tif)
        c0 == Built(Built(ctx, parent), child)
    IN  IF dry_run THEN [ctx |-> c0, parent |-> parent, child |-> child, trade |-> 0]
        ELSE LET p == placeOrder(c0, parent)
                 q == SendChild(p.ctx, child, p.order.orderId)
             IN  [ctx |-> q.ctx, parent |-> p.order, child |-> q.order,
                  trade |-> p.order.orderId]

(***************************************************************************)
(* src/src/ib/options.py: sell_option, buy_option                          *)
(* opt is the option contract; qualified tells whether ib.qualifyContracts *)
(* returns exactly one contract (otherwise the unpacking raises).          *)
(***************************************************************************)
OptOrder(opt, action, qty, dry_run, oca_group) ==
    [Order0 EXCEPT !.sec = "OPT", !.symbol = opt, !.orderType = "MKT", !.action = action,
                   !.totalQuantity = qty, !.ocaGroup = oca_group, !.transmit = ~dry_run]

sell_option(ctx, opt, qty, dry_run, unsafe_skip_qualify, oca_group, qualified) ==
    LET o == OptOrder(opt, "SELL", qty, dry_run, oca_group)
    IN  IF dry_run THEN [ctx |-> Logged(Built(ctx, o), "OPT MKT SELL"), ret |-> o, raised |-> FALSE]
        ELSE IF unsafe_skip_qualify \/ qualified
        THEN LET p == placeOrder(Built(ctx, o), o)
             IN  [ctx |-> p.ctx, ret |-> p.order, raised |-> FALSE]
        ELSE [ctx |-> Built(ctx, o), ret |-> o, raised |-> TRUE]

buy_option(ctx, opt, qty, dry_run, unsafe_skip_qualify, oca_group, qualified) ==
    LET o == OptOrder(opt, "BUY", qty, dry_run, oca_group)
    IN  IF dry_run THEN [ctx |-> Logged(Built(ctx, o), "OPT MKT BUY"), ret |-> o, raised |-> FALSE]
        ELSE IF unsafe_skip_qualify \/ qualified
        THEN LET p == placeOrder(Built(ctx, o), o)
             IN  [ctx |-> p.ctx, ret |-> p.order, raised |-> FALSE]
        ELSE [ctx |-> Built(ctx, o), ret |-> o, raised |-> TRUE]

(***************************************************************************)
(* src/src/orders/manual_order.py: place_manual_order                      *)
(* qualify_or_raise raises before anything else when the contract is not   *)
(* qualified; the MarketOrder is constructed only in live mode.            *)
(***************************************************************************)
place_manual_order(ctx, symbol, quantity, action, dry_run, qualified) ==
    IF ~qualified THEN [ctx |-> ctx, status |-> "raised"]
    ELSE IF dry_run THEN [ctx |-> Logged(ctx, "MANUAL"), status |-> "dry-run"]
    ELSE LET o == [Order0 EXCEPT !.sec = "STK", !.symbol = symbol, !.orderType = "MKT",
                                 !.action = action, !.totalQuantity = quantity]
             p == placeOrder(Built(ctx, o), o)
         IN  [ctx |-> p.ctx, status |-> "sent"]

(***************************************************************************)
(* Quotes.  A ticker field is NaN until the venue fills it; -1.0 is the    *)
(* vendor's "no value" sentinel.                                           *)
(***************************************************************************)
Ticker(l, b, a, c) == [last |-> l, bid |-> b, ask |-> a, close |-> c]

\* (bid + ask) / 2 as float arithmetic: NaN when either side is NaN
HalfSum(b, a) == IF b.k = "num" /\ a.k = "num" THEN Num((b.v + a.v) \div 2) ELSE NaN

\* ib_insync Ticker.hasBidAsk / midpoint / marketPrice, which the extractors call
hasBidAsk(t) == t.bid.k = "num" /\ t.bid.v # -1000 /\ t.ask.k = "num" /\ t.ask.v # -1000
midpoint(t) == IF hasBidAsk(t) THEN HalfSum(t.bid, t.ask) ELSE NaN
marketPrice(t) ==
    LET price == IF hasBidAsk(t)
                 THEN IF t.last.k = "num" /\ t.bid.v <= t.last.v /\ t.last.v <= t.ask.v
                      THEN t.last ELSE midpoint(t)
                 ELSE t.last
    IN  IF price.k = "nan" THEN t.close ELSE price

\* first element of a sequence of values that is finite and > 0, else None
RECURSIVE FirstPositive(_)
FirstPositive(xs) ==
    IF xs = <<>> THEN None
    ELSE IF Head(xs).k = "num" /\ Head(xs).v > 0 THEN Head(xs)
    ELSE FirstPositive(Tail(xs))

(***************************************************************************)
(* src/src/ib/options.py: _underlying_price (the value it returns; None    *)
(* stands for the RuntimeError it raises when no candidate is usable)      *)
(***************************************************************************)
UnderlyingCandidates(t) ==
    <<t.last,
      IF t.bid = None \/ t.ask = None THEN None ELSE HalfSum(t.bid, t.ask),
      t.close,
      marketPrice(t)>>

_underlying_price_value(t) == FirstPositive(UnderlyingCandidates(t))

(***************************************************************************)
(* src/src/ib/options.py: _closest_strike, _nearest_expiry_friday,         *)
(* pick_option_contract.  Expirations are day offsets from today; todayW   *)
(* is today's weekday (Monday 0 .. Sunday 6).                              *)
(***************************************************************************)
Abs(x) == IF x < 0 THEN -x ELSE x
Range(seq) == {seq[i] : i \in 1 .. Len(seq)}

\* min(strikes, key=|s - target|): Python's min keeps the first of equal keys
_closest_strike(strikes, target) ==
    LET key(i) == Abs(strikes[i] - target)
        first == CHOOSE i \in 1 .. Len(strikes) :
                     /\ \A j \in 1 .. Len(strikes) : key(i) <= key(j)
                     /\ \A j \in 1 .. (i - 1) : key(j) > key(i)
    IN  strikes[first]

Weekday(todayW, d) == (todayW + d) % 7
SetMin(S) == CHOOSE x \in S : \A y \in S : x <= y

\* a variant without the Friday preference
_nearest_expiry_friday_first(expirations, todayW) ==
    IF {d \in expirations : d >= 0} = {} THEN -1 ELSE SetMin({d \in expirations : d >= 0})

\* -1 stands for RuntimeError("No future expirations available")
_nearest_expiry_friday(expirations, todayW) ==
    LET future == {d \in expirations : d >= 0}
        fridays == {d \in future : Weekday(todayW, d) = 4}
    IN  IF future = {} THEN -1
        ELSE IF fridays # {} THEN SetMin(fridays)
        ELSE SetMin(future)

\* chain: what the venue answers to reqContractDetails / reqSecDefOptParams
\* t: the underlying's ticker, read only when no override price is given
pick_option_contract(und, right, pct_offset, prefer_friday, override_price, chain, t) ==
    LET und_px == IF override_price # None THEN override_price ELSE _underlying_price_value(t)
        calls == IF override_price # None THEN 0 ELSE 1
        Raise == [raised |-> TRUE, strike |-> 0, expiry |-> -1, target |-> 0,
                  resolverCalls |-> calls]
        future == {d \in chain.expirations : d >= 0}
        expiry == IF prefer_friday THEN _nearest_expiry_friday(chain.expirations, chain.todayW)
                  ELSE IF future = {} THEN -1 ELSE SetMin(future)
        target == IF right = "C" THEN (und_px.v * (BpsOne + pct_offset)) \div BpsOne
                  ELSE (und_px.v * (BpsOne - pct_offset)) \div BpsOne
    IN  IF und_px = None THEN Raise
        ELSE IF ~chain.found \/ ~chain.params THEN Raise
        ELSE IF expiry = -1 THEN Raise
        ELSE IF chain.strikes = <<>> THEN Raise
        ELSE IF und_px.k # "num"
        \* every key |s - target| is NaN or inf: min() keeps the first strike
        THEN [raised |-> FALSE, strike |-> Head(chain.strikes), expiry |-> expiry,
              target |-> 0, resolverCalls |-> calls]
        ELSE [raised |-> FALSE, strike |-> _closest_strike(chain.strikes, target),
              expiry |-> expiry, target |-> target, resolverCalls |-> calls]

(***************************************************************************)
(* src/streamlit_app.py: _wait_filled.  polls are the statuses the venue   *)
(* reports at the successive polls that fit in the timeout.                *)
(***************************************************************************)
Statuses == {"Submitted", "Filled", "Cancelled", "Inactive", "ApiCancelled"}

\* str.lower() on the venue's status strings
lower(st) ==
    CASE st = "Filled" -> "filled"
      [] st = "Cancelled" -> "cancelled"
      [] st = "Inactive" -> "inactive"
      [] st = "ApiCancelled" -> "apicancelled"
      [] OTHER -> "submitted"

RECURSIVE _wait_filled(_, _)
_wait_filled(polls, i) ==
    IF i > Len(polls) THEN FALSE
    ELSE IF lower(polls[i]) = "filled" THEN TRUE
    ELSE IF lower(polls[i]) \in {"cancelled", "inactive", "api cancelled"} THEN FALSE
    ELSE _wait_filled(polls, i + 1)

\* the statuses _wait_filled has read when it returns
RECURSIVE PolledBy(_, _)
PolledBy(polls, i) ==
    IF i > Len(polls) THEN <<>>
    ELSE IF lower(polls[i]) \in {"filled", "cancelled", "inactive", "api cancelled"}
    THEN <<polls[i]>>
    ELSE <<polls[i]>> \o PolledBy(polls, i + 1)

(***************************************************************************)
(* Result of an entry point                                                *)
(***************************************************************************)
\* status: "returned" or "raised"; qty: share quantity computed, -1 when none was;
\* polled: parent statuses read before the option leg; calls: price-resolver calls
Result(ctx, status, msgs, qty, polled, calls) ==
    [sent |-> ctx.sent, built |-> ctx.built, log |-> ctx.log, status |-> status,
     msgs |-> msgs, qty |-> qty, polled |-> polled, calls |-> calls, target |-> -1,
     trade |-> -1, nextId |-> ctx.nextId]

WithTarget(r, t) == [r EXCEPT !.target = t]
\* the parent_trade a bracket call returned: 0 for None, else the parent's order id
WithTrade(r, t) == [r EXCEPT !.trade = t]

\* int(budget // px) for a float px that is not NaN
FloorQty(budget, px) == IF px.k = "num" THEN budget \div px.v ELSE 0

\* src/src/config.py OrderPolicy defaults
POL_slippage_bps == 15
POL_stop_pct == 600
POL_take_profit_pct == None
POL_tif == "DAY"

(***************************************************************************)
(* src/src/ib/orders.py: run_covered_call                                  *)
(***************************************************************************)
\* the body of run_covered_call once manual_price is known to be given
covered_call_plan(ctx, symbol, budget_usd, stop_pct_value, manual_price, entry_slippage_bps, dry_run, oca_group, chain, qualified) ==
    LET ref == manual_price
        qty_shares == FloorQty(budget_usd, ref)
        px == decide_lmt_stop_take(ref.v, entry_slippage_bps, stop_pct_value, None)
        l == limit_(ctx, symbol, "BUY", qty_shares, px.lmt, dry_run, oca_group)
        st == stop_pct(l.ctx, symbol, qty_shares, ref.v, stop_pct_value, "", dry_run, oca_group)
        qty_calls == qty_shares \div 100
        pick == pick_option_contract(symbol, "C", 0, TRUE, ref, chain, Ticker(NaN, NaN, NaN, NaN))
        so == sell_option(st.ctx, symbol, qty_calls, dry_run, FALSE, oca_group, qualified)
    IN  IF Le0(ref)
        THEN Result(Logged(ctx, "PLAN invalid reference"), "returned", <<>>, -1, <<>>, 0)
        ELSE IF ref.k = "nan"
        THEN Result(ctx, "raised", <<>>, -1, <<>>, 0)       \* int(nan): ValueError
        ELSE IF qty_shares <= 0
        THEN Result(Logged(ctx, "PLAN budget insufficient"), "returned", <<>>, qty_shares, <<>>, 0)
        ELSE IF qty_calls <= 0
        THEN Result(Logged(st.ctx, "PLAN C- skipped"), "returned", <<>>, qty_shares, <<>>, 0)
        ELSE IF pick.raised
        THEN Result(Logged(st.ctx, "PLAN C- unavailable"), "returned", <<>>, qty_shares, <<>>,
                    pick.resolverCalls)
        ELSE Result(so.ctx, IF so.raised THEN "raised" ELSE "returned", <<>>, qty_shares, <<>>,
                    pick.resolverCalls)

\* a variant that sizes from a built-in price when manual_price is None
run_covered_call_defaultref(ctx, symbol, budget_usd, stop_pct_value, manual_price, entry_slippage_bps, dry_run, oca_group, chain, qualified) ==
    covered_call_plan(ctx, symbol, budget_usd, stop_pct_value,
                      IF manual_price = None THEN Num(20000) ELSE manual_price,
                      entry_slippage_bps, dry_run, oca_group, chain, qualified)

run_covered_call(ctx, symbol, budget_usd, stop_pct_value, manual_price, entry_slippage_bps, dry_run, oca_group, chain, qualified) ==
    IF manual_price = None
    THEN Result(Logged(ctx, "PLAN manual_price missing"), "returned", <<>>, -1, <<>>, 0)
    ELSE covered_call_plan(ctx, symbol, budget_usd, stop_pct_value, manual_price,
                           entry_slippage_bps, dry_run, oca_group, chain, qualified)

(***************************************************************************)
(* src/streamlit_app.py: run_nugt_cc, run_tmf_cc, run_etf_buy_with_stop    *)
(* hasClient: get_client() returned a client; polls: see _wait_filled       *)
(***************************************************************************)
\* the covered-call leg shared by run_nugt_cc and run_tmf_cc (the try block)
CallLeg(ctx, msgs0, symbol, px, qty_shares, qty_contracts, live, trade, chain, qualified, polls) ==
    LET waits == live /\ trade # 0
        filled == _wait_filled(polls, 1)
        polled == IF waits THEN PolledBy(polls, 1) ELSE <<>>
        pick == pick_option_contract(symbol, "C", 0, TRUE, px, chain, Ticker(NaN, NaN, NaN, NaN))
        so == sell_option(ctx, symbol, qty_contracts, ~live, FALSE, "", qualified)
    IN  IF qty_contracts >= 1
        THEN IF waits /\ ~filled
             THEN Result(ctx, "returned", Append(msgs0, "CC skipped: parent not filled"),
                         qty_shares, polled, 0)
             ELSE IF pick.raised \/ so.raised
             THEN Result(IF pick.raised THEN ctx ELSE so.ctx, "returned",
                         Append(msgs0, "Option SELL failed"), qty_shares, polled, 0)
             ELSE Result(so.ctx, "returned", Append(msgs0, "Option: CALL SELL"),
                         qty_shares, polled, 0)
        ELSE Result(ctx, "returned", Append(msgs0, "Option skipped: under 100 shares"),
                    qty_shares, polled, 0)

run_nugt_cc(ctx, budget, stop_pct_val, ref, live, hasClient, chain, qualified, polls) ==
    LET px == ref
        qty_shares == FloorQty(budget, px)
        qty_contracts == qty_shares \div 100
        d == decide_lmt_stop_take(px.v, POL_slippage_bps, stop_pct_val, POL_take_profit_pct)
        b == bracket_buy_with_stop(ctx, "NUGT", qty_shares, "LMT", d.lmt, d.stp, POL_tif, ~live)
    IN  IF ref = None \/ ~Gt0(ref)
        THEN Result(ctx, "raised", <<>>, -1, <<>>, 0)        \* assert ref is not None and ref > 0
        ELSE IF ~IsFinite(px)
        THEN Result(ctx, "raised", <<>>, -1, <<>>, 0)        \* price is invalid
        ELSE IF qty_shares < 1
        THEN Result(ctx, "raised", <<>>, qty_shares, <<>>, 0)  \* Budget too small
        ELSE IF ~live
        THEN Result(Logged(Logged(Logged(ctx, "STOCK LMT"), "STOCK STP"), "OPT SELL CALL"),
                    "returned", <<"sizing", "Option (est.)">>, qty_shares, <<>>, 0)
        ELSE IF ~hasClient
        THEN Result(ctx, "raised", <<"sizing">>, qty_shares, <<>>, 0)   \* cli is None
        ELSE CallLeg(b.ctx, <<"sizing", "Bracket">>, "NUGT", px, qty_shares, qty_contracts,
                     live, b.trade, chain, qualified, polls)

run_tmf_cc(ctx, budget, stop_pct_val, ref, live, hasClient, chain, qualified, polls) ==
    LET px == ref
        qty_shares == FloorQty(budget, px)
        qty_contracts == qty_shares \div 100
        d == decide_lmt_stop_take(px.v, POL_slippage_bps, stop_pct_val, POL_take_profit_pct)
        c1 == IF live THEN ctx ELSE Logged(Logged(ctx, "STOCK LMT"), "STOCK STP")
        b == bracket_buy_with_stop(c1, "TMF", qty_shares, "LMT", d.lmt, d.stp, POL_tif, ~live)
    IN  IF ~(Truthy(ref) /\ Gt0(ref))
        THEN Result(ctx, "raised", <<>>, -1, <<>>, 0)        \* assert ref and ref > 0
        ELSE IF ~hasClient
        THEN Result(ctx, "raised", <<>>, -1, <<>>, 0)
        ELSE IF ~IsFinite(px)
        THEN Result(ctx, "raised", <<>>, -1, <<>>, 0)
        ELSE IF qty_shares < 1
        THEN Result(ctx, "raised", <<>>, qty_shares, <<>>, 0)
        ELSE CallLeg(b.ctx, <<"sizing", "Bracket">>, "TMF", px, qty_shares, qty_contracts,
                     live, b.trade, chain, qualified, polls)

run_etf_buy_with_stop(ctx, symbol, budget, ref, live, hasClient) ==
    LET px == ref
        qty_shares == FloorQty(budget, px)
        d == decide_lmt_stop_take(px.v, POL_slippage_bps, POL_stop_pct, POL_take_profit_pct)
        c1 == IF live THEN ctx ELSE Logged(Logged(ctx, "STOCK LMT"), "STOCK STP")
        b == bracket_buy_with_stop(c1, symbol, qty_shares, "LMT", d.lmt, d.stp, POL_tif, ~live)
    IN  IF ~(Truthy(ref) /\ Gt0(ref))
        THEN Result(ctx, "raised", <<>>, -1, <<>>, 0)
        ELSE IF ~hasClient
        THEN Result(ctx, "raised", <<>>, -1, <<>>, 0)
        ELSE IF qty_shares < 1
        THEN Result(ctx, "raised", <<>>, qty_shares, <<>>, 0)
        ELSE Result(b.ctx, "returned", <<"sizing", "Bracket">>, qty_shares, <<>>, 0)

(***************************************************************************)
(* src/src/demo_cc.py: main (dry_run is fixed to True there)               *)
(* t: the underlying's ticker, read by _underlying_price                    *)
(***************************************************************************)
demo_main(ctx, budget, t, chain, qualified) ==
    LET px == _underlying_price_value(t)
        fdiv == budget \div px.v
        qty_shares == IF fdiv > 1 THEN fdiv ELSE 1
        qty_contracts == qty_shares \div 100
        c1 == IF qty_contracts = 0 THEN Logged(ctx, "skip: under 100 shares") ELSE ctx
        mk == market(c1, "NUGT", "BUY", qty_shares, TRUE, "")
        st == stop_pct(mk.ctx, "NUGT", qty_shares, px.v, 600, "", TRUE, "COVERED-uuid")
        pick == pick_option_contract("NUGT", "C", 0, TRUE, None, chain, t)
        so == sell_option(st.ctx, "NUGT", qty_contracts, TRUE, FALSE, "", qualified)
    IN  IF px = None THEN Result(ctx, "raised", <<>>, -1, <<>>, 1)
        ELSE IF qty_contracts >= 1
        THEN IF pick.raised THEN Result(st.ctx, "raised", <<>>, qty_shares, <<>>, 2)
             ELSE Result(Logged(so.ctx, "completed"), "returned", <<>>, qty_shares, <<>>, 2)
        ELSE Result(Logged(st.ctx, "completed"), "returned", <<>>, qty_shares, <<>>, 1)

(***************************************************************************)
(* src/src/ib/orders.py: run_put_long                                      *)
(* hasIb: an IB client was passed; t: the underlying's ticker              *)
(***************************************************************************)
run_put_long(ctx, hasIb, symbol, contracts, manual_price, pct_offset, dry_run, oca_group, chain, t, qualified) ==
    LET qty == contracts
        px == manual_price
        target == RoundCents(px.v, BpsOne + pct_offset)
        pick == pick_option_contract(symbol, "P", pct_offset, TRUE,
                                     IF Truthy(manual_price) THEN manual_price ELSE None,
                                     chain, t)
        bo == buy_option(ctx, symbol, qty, FALSE, FALSE, oca_group, qualified)
    IN  IF qty <= 0
        THEN Result(ctx, "returned", <<"PLAN P+ skipped">>, -1, <<>>, 0)
        ELSE IF dry_run \/ ~hasIb
        THEN IF ~Gt0(px)
             THEN Result(ctx, "raised", <<>>, -1, <<>>, 0)   \* manual_price is required
             ELSE IF px.k = "inf"                            \* round(inf, 2) is inf
             THEN Result(Logged(Logged(ctx, "PLAN P+ DRY"), "PLAN contracts"),
                         "returned", <<"PLAN P+ DRY", "PLAN contracts">>, -1, <<>>, 0)
             ELSE WithTarget(Result(Logged(Logged(ctx, "PLAN P+ DRY"), "PLAN contracts"),
                                    "returned", <<"PLAN P+ DRY", "PLAN contracts">>, -1, <<>>, 0),
                             target)
        ELSE IF pick.raised
        THEN Result(Logged(ctx, "PLAN P+ unavailable"), "returned", <<"PLAN P+ unavailable">>,
                    -1, <<>>, pick.resolverCalls)
        ELSE IF bo.raised
        THEN Result(bo.ctx, "raised", <<>>, -1, <<>>, pick.resolverCalls)
        ELSE WithTarget(Result(Logged(bo.ctx, "LIVE PUT BUY"), "returned", <<"LIVE PUT BUY">>,
                               -1, <<>>, pick.resolverCalls), pick.target)

(***************************************************************************)
(* src/src/ib/uvix_p_plus.py: first_finite, _mid, _mark_price_for_entry,   *)
(* _calc_limit_from_mark, place_uvix_p_plus_order                          *)
(***************************************************************************)
\* 0.5 * (bid + ask), NaN when a side is None or the result is not finite
_mid(bid, ask) == IF bid = None \/ ask = None THEN NaN ELSE HalfSum(bid, ask)

RECURSIVE first_finite(_)
first_finite(vals) ==
    IF vals = <<>> THEN None
    ELSE IF Head(vals).k = "num" THEN Head(vals)
    ELSE first_finite(Tail(vals))

\* the mark taken from what _fetch_mark_prices returned; None stands for the RuntimeError
\* require_float raises
_mark_price_for_entry_value(last, bid, ask, close) ==
    first_finite(<<_mid(bid, ask), last, close, ask, bid>>)

_calc_limit_from_mark(mark, side, bps) ==
    IF side = "BUY"
    THEN LET lim == RoundCents(mark, BpsOne + bps)
         IN  IF lim <= mark THEN RoundCents(mark + MillsPerCent, BpsOne) ELSE lim
    ELSE RoundCents(mark, BpsOne - bps)

\* os.getenv("UVIX_DEFAULT_BUDGET", "60000"), in mills
UVIX_DEFAULT_BUDGET == 60000000

\* qty, budget, limit_price, limit_from_mark_pct, stop_loss_pct: None or Num
place_uvix_p_plus_order(ctx, qty, budget, order_type, limit_price, limit_from_mark_pct, limit_slippage_bps, stop_loss_pct, tif, dry_run, hasConid, markV) ==
    LET Raised(q) == Result(ctx, "raised", <<>>, q, <<>>, 1)
        budget1 == IF budget = None THEN Num(UVIX_DEFAULT_BUDGET) ELSE budget
        mark == markV.v
        ot == order_type
        limit_v_opt == IF limit_price # None THEN limit_price.v
                       ELSE IF limit_from_mark_pct # None
                       THEN RoundCents(mark, BpsOne + limit_from_mark_pct.v)
                       ELSE _calc_limit_from_mark(mark, "BUY", limit_slippage_bps)
        limit_v_f == IF ot = "LMT" THEN limit_v_opt ELSE 0
        ref_px == IF ot = "LMT" THEN limit_v_f ELSE mark
        \* budget_f // ref_px: below 1 for a negative divisor and a positive budget
        fdiv == IF ref_px > 0 THEN budget1.v \div ref_px ELSE -1
        qty1 == IF qty = None THEN (IF fdiv > 1 THEN fdiv ELSE 1) ELSE qty.v
        hasStop == stop_loss_pct # None /\ stop_loss_pct.v > 0
        stop_px == RoundCents(mark, BpsOne - stop_loss_pct.v)
        oca == "OCA_UVIX_P_PLUS_uuid"
        parent == [Order0 EXCEPT !.sec = "STK", !.symbol = "UVIX", !.action = "BUY",
                                 !.orderType = ot, !.totalQuantity = qty1, !.tif = tif,
                                 !.lmtPrice = IF ot = "LMT" THEN Num(limit_v_f) ELSE @,
                                 !.transmit = ~hasStop]
        stp == [Order0 EXCEPT !.sec = "STK", !.symbol = "UVIX", !.action = "SELL",
                              !.orderType = "STP", !.totalQuantity = qty1, !.tif = "GTC",
                              !.auxPrice = Num(stop_px), !.parentId = 0, !.ocaGroup = oca,
                              !.transmit = TRUE]
        c0 == IF hasStop THEN Built(Built(ctx, parent), stp) ELSE Built(ctx, parent)
        p == placeOrder(c0, parent)
        q == SendChild(p.ctx, stp, p.order.orderId)
    IN  IF ~hasConid THEN Result(ctx, "raised", <<>>, -1, <<>>, 0)
        ELSE IF markV = None THEN Raised(-1)
        ELSE IF ot \notin {"LMT", "MKT"} THEN Raised(-1)
        ELSE IF ot = "LMT" /\ limit_v_f <= 0 THEN Raised(-1)       \* ensure_positive
        ELSE IF qty = None /\ budget1.v <= 0 THEN Raised(-1)
        ELSE IF qty = None /\ ref_px = 0 THEN Raised(-1)           \* float floor division by zero
        ELSE IF dry_run THEN Result(c0, "returned", <<"dry_run">>, qty1, <<>>, 1)
        ELSE Result(IF hasStop THEN q.ctx ELSE p.ctx, "returned", <<"placed">>, qty1, <<>>, 1)

(***************************************************************************)
(* src/streamlit_app.py: the NUGT submit handler                           *)
(* decided, fetched: st.session_state decided_price:NUGT and price:NUGT     *)
(***************************************************************************)
NugtSubmitPrice(use_manual, manual_price, decided, fetched) ==
    IF use_manual /\ manual_price > 0 THEN Num(manual_price) ELSE PyOr(decided, fetched)

nugt_submit(ctx, use_manual, manual_price, decided, fetched, isLive, budget, stop, hasClient, chain, qualified, polls) ==
    LET price == NugtSubmitPrice(use_manual, manual_price, decided, fetched)
    IN  IF ~Truthy(price)
        THEN Result(ctx, "warned", <<"no decided price">>, -1, <<>>, 0)
        ELSE IF isLive
        THEN run_nugt_cc(ctx, budget, stop, price, TRUE, hasClient, chain, qualified, polls)
        ELSE Result(ctx, "queued", <<"NUGT_CC">>, -1, <<>>, 0)

(***************************************************************************)
(* src/src/price.py: _ok_number, safe_price, _hist_close                   *)
(***************************************************************************)
\* not None, not NaN, not -1.0
_ok_number(v) == v # None /\ v.k # "nan" /\ ~(v.k = "num" /\ v.v = -1000)

RECURSIVE FirstOk(_)
FirstOk(xs) ==
    IF xs = <<>> THEN None
    ELSE IF _ok_number(Head(xs)) THEN Head(xs)
    ELSE FirstOk(Tail(xs))

\* t = None: ib.ticker() knows no ticker for the contract
safe_price(t) ==
    IF t = None THEN None
    ELSE IF _ok_number(marketPrice(t)) THEN marketPrice(t)
    ELSE FirstOk(<<midpoint(t), t.last, t.close>>)

\* bars: None when reqHistoricalData returned no bar, else the last bar's close
_hist_close(bars) ==
    IF bars = None THEN None
    ELSE IF bars.k # "nan" /\ ~(bars.k = "num" /\ bars.v = -1000) THEN bars
    ELSE None

\* md_try = [delay_type] + [x for x in (4, 1, 2) if x != delay_type]
RECURSIVE Without(_, _)
Without(xs, x) ==
    IF xs = <<>> THEN <<>>
    ELSE IF Head(xs) = x THEN Without(Tail(xs), x)
    ELSE <<Head(xs)>> \o Without(Tail(xs), x)

md_try(delay_type) == <<delay_type>> \o Without(<<4, 1, 2>>, delay_type)

(***************************************************************************)
(* src/src/ib_client.py: resolve_price                                     *)
(***************************************************************************)
resolve_price(t) ==
    LET p == FirstPositive(<<t.last, t.close, marketPrice(t)>>)
    IN  IF p # None THEN p
        ELSE IF t.bid.k = "num" /\ t.ask.k = "num" /\ t.bid.v > 0 /\ t.ask.v > 0
        THEN HalfSum(t.bid, t.ask)
        ELSE None

\* the first streaming poll whose ticker resolves to a truthy price, else None
RECURSIVE FirstResolved(_)
FirstResolved(ts) ==
    IF ts = <<>> THEN [price |-> None, quote |-> None]
    ELSE IF Truthy(resolve_price(Head(ts))) THEN [price |-> resolve_price(Head(ts)), quote |-> Head(ts)]
    ELSE FirstResolved(Tail(ts))

(***************************************************************************)
(* src/src/ib/options.py: get_option_mid (the value it returns)            *)
(***************************************************************************)
\* x and x > 0
TruthyPos(x) == Truthy(x) /\ Gt0(x)

RECURSIVE get_option_mid_value(_)
get_option_mid_value(ts) ==
    IF ts = <<>> THEN None
    ELSE LET t == Head(ts)
         IN  IF TruthyPos(t.bid) /\ TruthyPos(t.ask)
             THEN IF t.bid.k = "num" /\ t.ask.k = "num"
                  THEN Num(MillsPerCent * RoundHalfEven(t.bid.v + t.ask.v, 2 * MillsPerCent))
                  ELSE Inf
             ELSE IF TruthyPos(t.close) THEN t.close
             ELSE IF TruthyPos(t.last) THEN t.last
             ELSE get_option_mid_value(Tail(ts))

(***************************************************************************)
(* src/src/ib/uvix_p_plus.py: _is_finite, _fetch_mark_prices               *)
(* r1, r2: the streaming and the snapshot request, [ok, t]; bars: as in    *)
(* _hist_close                                                             *)
(***************************************************************************)
_is_finite(x) == x # None /\ x.k = "num"

_fetch_mark_prices(r1, r2, bars) ==
    LET none4 == [last |-> None, bid |-> None, ask |-> None, close |-> None]
        s1 == IF r1.ok
              THEN [last |-> PyOr(r1.t.last, marketPrice(r1.t)), bid |-> r1.t.bid,
                    ask |-> r1.t.ask, close |-> r1.t.close]
              ELSE none4
        need2 == ~(_is_finite(s1.last) /\ (_is_finite(s1.bid) \/ _is_finite(s1.ask)))
        s2 == IF need2 /\ r2.ok
              THEN [last |-> IF ~_is_finite(s1.last) THEN PyOr(r2.t.last, marketPrice(r2.t))
                             ELSE s1.last,
                    bid |-> IF ~_is_finite(s1.bid) THEN r2.t.bid ELSE s1.bid,
                    ask |-> IF ~_is_finite(s1.ask) THEN r2.t.ask ELSE s1.ask,
                    close |-> IF ~_is_finite(s1.close) THEN r2.t.close ELSE s1.close]
              ELSE s1
        need3 == ~(_is_finite(s2.last) \/ _is_finite(s2.close) \/ _is_finite(s2.bid)
                   \/ _is_finite(s2.ask))
    IN  IF need3 /\ bars # None
        THEN [s2 EXCEPT !.close = bars, !.last = IF ~_is_finite(@) THEN bars ELSE @]
        ELSE s2

_mark_price_for_entry(r1, r2, bars) ==
    LET m == _fetch_mark_prices(r1, r2, bars)
    IN  _mark_price_for_entry_value(m.last, m.bid, m.ask, m.close)

(***************************************************************************)
(* A price fetch: who runs it, what it tried, what it hands back           *)
(***************************************************************************)
Resolvers == {"get_prices", "wait_price", "_underlying_price", "get_option_mid",
              "_mark_price_for_entry"}
NoSource == [kind |-> "", md |-> 0]
IdleFetch ==
    [name |-> "idle", delay_type |-> 0, i |-> 0, attempts |-> <<>>, hist |-> FALSE,
     price |-> None, source |-> NoSource, raised |-> FALSE, pending |-> FALSE,
     quote |-> None, bars |-> None]

\* no job submitted, the worker waiting on the queue
JobKinds == {"nugt", "tmf"}
MaxClock == 1
JobIds == JobKinds \X (0 .. MaxClock)
WorkerWaiting == [pc |-> "get", jid |-> <<"", 0>>, runs |-> 0, raised |-> FALSE, task_done |-> 0]
UiWaiting == [pc |-> "form", jid |-> <<"", 0>>, clock |-> 0, submitted |-> 0]
JobIdle ==
    /\ job_q = <<>>
    /\ job_res = [j \in JobIds |-> "none"]
    /\ worker = WorkerWaiting
    /\ ui = UiWaiting
    /\ writers = [j \in JobIds |-> {}]

\* no selection under way
NoSelection == [fn |-> "idle", in |-> <<>>, out |-> <<>>]
SelIdle == sel = NoSelection

PriceIdle ==
    /\ pc = "idle"
    /\ fetch = IdleFetch
    /\ subs = [r \in Resolvers |-> 0]

(***************************************************************************)
(* Order entry points as a state machine: a call runs to completion, the   *)
(* caller takes the result, the venue's order-id counter lives on.         *)
(***************************************************************************)
MaxOrderId == 7
MaxPolls == 2

OrdRefs == {None, NaN, Inf, Num(0), Num(-5000), Num(1004), Num(20000), Num(120000)}
OrdBudgets == {0, 5000, 5000000}
OrdStops == {600, 1000}
OrdQtys == {1, 41, 250}
Ladder == <<95000, 97500, 100000, 102500, 105000>>
ChainGood == [found |-> TRUE, params |-> TRUE, strikes |-> Ladder,
              expirations |-> {-3, 1, 2, 9}, todayW |-> 2]
ChainNone == [found |-> FALSE, params |-> FALSE, strikes |-> <<>>, expirations |-> {}, todayW |-> 2]
ChainPast == [found |-> TRUE, params |-> TRUE, strikes |-> Ladder,
              expirations |-> {-3, -1}, todayW |-> 2]
Chains == {ChainGood, ChainNone, ChainPast}
PollSeqs == [1 .. MaxPolls -> Statuses]
NoTicker == Ticker(NaN, NaN, NaN, NaN)
OrdTickers == {NoTicker, Ticker(Num(-1000), NaN, NaN, Num(0)),
               Ticker(Num(100000), Num(99000), Num(101000), Num(98000))}

IdleOp == [name |-> "idle", dry_run |-> TRUE, ref |-> None, budget |-> 0, sized |-> FALSE,
           hasStop |-> FALSE, tk |-> NoTicker]
IdleRes == Result(Ctx0(1), "idle", <<>>, -1, <<>>, 0)

Call(name, dry, ref, budget, sized, hasStop, tk) ==
    [name |-> name, dry_run |-> dry, ref |-> ref, budget |-> budget, sized |-> sized,
     hasStop |-> hasStop, tk |-> tk]

Idle == op.name = "idle" /\ nextId + 3 <= MaxOrderId

Done(call, r) ==
    /\ op' = call
    /\ res' = r
    /\ nextId' = r.nextId
    /\ UNCHANGED <<calcVars, priceVars, selVars, jobVars>>

Market ==
    /\ Idle
    /\ \E action \in {"BUY", "SELL"}, qty \in OrdQtys, dry \in BOOLEAN, oca \in {"", "OCA-1"} :
         LET r == market(Ctx0(nextId), "NUGT", action, qty, dry, oca)
         IN  Done(Call("market", dry, None, 0, FALSE, FALSE, NoTicker),
                  Result(r.ctx, "returned", <<>>, -1, <<>>, 0))

Limit ==
    /\ Idle
    /\ \E action \in {"BUY", "SELL"}, qty \in OrdQtys, dry \in BOOLEAN, oca \in {"", "OCA-1"},
          lmt \in {1000, 100150} :
         LET r == limit_(Ctx0(nextId), "NUGT", action, qty, lmt, dry, oca)
         IN  Done(Call("limit_", dry, None, 0, FALSE, FALSE, NoTicker),
                  Result(r.ctx, "returned", <<>>, -1, <<>>, 0))

StopPct ==
    /\ Idle
    /\ \E side \in {"", "BUY", "SELL"}, qty \in OrdQtys, dry \in BOOLEAN, oca \in {"", "OCA-1"},
          ref \in {1004, 100000}, pct \in OrdStops :
         LET r == stop_pct(Ctx0(nextId), "NUGT", qty, ref, pct, side, dry, oca)
         IN  Done(Call("stop_pct", dry, Num(ref), 0, FALSE, TRUE, NoTicker),
                  Result(r.ctx, "returned", <<>>, -1, <<>>, 0))

BracketBuyWithStop ==
    /\ Idle
    /\ \E et \in {"LMT", "MKT"}, qty \in OrdQtys, dry \in BOOLEAN, lmt \in {1000, 100150},
          stp \in {940, 94000}, tif \in {"DAY", "GTC"} :
         LET r == bracket_buy_with_stop(Ctx0(nextId), "NUGT", qty, et, lmt, stp, tif, dry)
         IN  Done(Call("bracket_buy_with_stop", dry, None, 0, FALSE, TRUE, NoTicker),
                  WithTrade(Result(r.ctx, "returned", <<>>, -1, <<>>, 0), r.trade))

SellOption ==
    /\ Idle
    /\ \E qty \in {1, 2}, dry \in BOOLEAN, skip \in BOOLEAN, oca \in {"", "OCA-1"},
          qualified \in BOOLEAN :
         LET r == sell_option(Ctx0(nextId), "NUGT", qty, dry, skip, oca, qualified)
         IN  Done(Call("sell_option", dry, None, 0, FALSE, FALSE, NoTicker),
                  Result(r.ctx, IF r.raised THEN "raised" ELSE "returned", <<>>, -1, <<>>, 0))

BuyOption ==
    /\ Idle
    /\ \E qty \in {1, 2}, dry \in BOOLEAN, skip \in BOOLEAN, oca \in {"", "OCA-1"},
          qualified \in BOOLEAN :
         LET r == buy_option(Ctx0(nextId), "UVIX", qty, dry, skip, oca, qualified)
         IN  Done(Call("buy_option", dry, None, 0, FALSE, FALSE, NoTicker),
                  Result(r.ctx, IF r.raised THEN "raised" ELSE "returned", <<>>, -1, <<>>, 0))

PlaceManualOrder ==
    /\ Idle
    /\ \E sym \in {"NUGT", "TMF"}, qty \in {100, 200}, action \in {"BUY", "SELL"},
          dry \in BOOLEAN, qualified \in BOOLEAN :
         LET r == place_manual_order(Ctx0(nextId), sym, qty, action, dry, qualified)
         IN  Done(Call("place_manual_order", dry, None, 0, FALSE, FALSE, NoTicker),
                  Result(r.ctx, IF r.status = "raised" THEN "raised" ELSE "returned",
                         <<r.status>>, -1, <<>>, 0))

RunCoveredCall ==
    /\ Idle
    /\ \E budget \in OrdBudgets, stop \in OrdStops, ref \in OrdRefs, dry \in BOOLEAN,
          chain \in Chains, qualified \in BOOLEAN :
         Done(Call("run_covered_call", dry, ref, budget, TRUE, TRUE, NoTicker),
              run_covered_call(Ctx0(nextId), "NUGT", budget, stop, ref, POL_slippage_bps, dry, "",
                               chain, qualified))

RunNugtCc ==
    /\ Idle
    /\ \E budget \in OrdBudgets, stop \in OrdStops, ref \in OrdRefs, live \in BOOLEAN,
          hasClient \in BOOLEAN, chain \in Chains, qualified \in BOOLEAN, polls \in PollSeqs :
         Done(Call("run_nugt_cc", ~live, ref, budget, TRUE, TRUE, NoTicker),
              run_nugt_cc(Ctx0(nextId), budget, stop, ref, live, hasClient, chain, qualified,
                          polls))

RunTmfCc ==
    /\ Idle
    /\ \E budget \in OrdBudgets, stop \in OrdStops, ref \in OrdRefs, live \in BOOLEAN,
          hasClient \in BOOLEAN, chain \in Chains, qualified \in BOOLEAN, polls \in PollSeqs :
         Done(Call("run_tmf_cc", ~live, ref, budget, TRUE, TRUE, NoTicker),
              run_tmf_cc(Ctx0(nextId), budget, stop, ref, live, hasClient, chain, qualified,
                         polls))

RunEtfBuyWithStop ==
    /\ Idle
    /\ \E sym \in {"SOXL", "TQQQ"}, budget \in OrdBudgets, ref \in OrdRefs, live \in BOOLEAN,
          hasClient \in BOOLEAN :
         Done(Call("run_etf_buy_with_stop", ~live, ref, budget, TRUE, TRUE, NoTicker),
              run_etf_buy_with_stop(Ctx0(nextId), sym, budget, ref, live, hasClient))

\* the offset the put is asked at (pct_offset = 0.05)
PutOffset == 500

RunPutLong ==
    /\ Idle
    /\ \E hasIb \in BOOLEAN, contracts \in {0, 1}, ref \in OrdRefs, dry \in BOOLEAN,
          chain \in Chains, t \in OrdTickers, qualified \in BOOLEAN :
         Done(Call("run_put_long", dry \/ ~hasIb, ref, 0, FALSE, FALSE, t),
              run_put_long(Ctx0(nextId), hasIb, "UVIX", contracts, ref, PutOffset, dry, "", chain, t,
                           qualified))

DemoMain ==
    /\ Idle
    /\ \E budget \in OrdBudgets, t \in OrdTickers, chain \in Chains, qualified \in BOOLEAN :
         Done(Call("demo_main", TRUE, _underlying_price_value(t), budget, TRUE, TRUE, t),
              demo_main(Ctx0(nextId), budget, t, chain, qualified))

\* the mark is what _mark_price_for_entry returns (None: it raised)
UvixMarks == {None, Num(-1000), Num(0), Num(1004), Num(20000)}
UvixBudgets == {None, Num(0), Num(5000), Num(5000000)}

PlaceUvixPPlusOrder ==
    /\ Idle
    /\ \E qty \in {None, Num(3)}, budget \in UvixBudgets, ot \in {"LMT", "MKT", "STP"},
          lp \in {None, Num(20050)}, fm \in {None, Num(1500)}, sl \in {None, Num(0), Num(1000)},
          dry \in BOOLEAN, hasConid \in BOOLEAN, markV \in UvixMarks :
         Done(Call("place_uvix_p_plus_order", dry, markV,
                   IF budget = None THEN UVIX_DEFAULT_BUDGET ELSE budget.v, qty = None,
                   sl # None /\ sl.v > 0, NoTicker),
              place_uvix_p_plus_order(Ctx0(nextId), qty, budget, ot, lp, fm, 5, sl, "DAY", dry,
                                      hasConid, markV))

NugtSubmit ==
    /\ Idle
    /\ \E use_manual \in BOOLEAN, manual_price \in {0, 20000}, decided \in {None, Num(0), Num(20000)},
          fetched \in {None, Num(0), Num(120000)}, isLive \in BOOLEAN, budget \in OrdBudgets,
          hasClient \in BOOLEAN, chain \in {ChainGood}, qualified \in BOOLEAN, polls \in PollSeqs :
         Done(Call("nugt_submit", ~isLive,
                   NugtSubmitPrice(use_manual, manual_price, decided, fetched), budget, TRUE, TRUE,
                   NoTicker),
              nugt_submit(Ctx0(nextId), use_manual, manual_price, decided, fetched, isLive, budget,
                          POL_stop_pct, hasClient, chain, qualified, polls))

\* the caller takes the result; the venue's id counter keeps its value
Return ==
    /\ op.name # "idle"
    /\ op' = IdleOp
    /\ res' = [IdleRes EXCEPT !.nextId = nextId]
    /\ UNCHANGED <<nextId, calcVars, priceVars, selVars, jobVars>>

CalcIdle ==
    /\ cRef = 1000 /\ cBps = 0 /\ cStop = 600 /\ cTake = None /\ cOut = NotComputed

InitOrders ==
    /\ op = IdleOp
    /\ res = IdleRes
    /\ nextId = 1
    /\ CalcIdle
    /\ PriceIdle
    /\ SelIdle
    /\ JobIdle

NextOrders ==
    \/ Market \/ Limit \/ StopPct \/ BracketBuyWithStop \/ SellOption \/ BuyOption
    \/ PlaceManualOrder \/ RunCoveredCall \/ RunNugtCc \/ RunTmfCc \/ RunEtfBuyWithStop
    \/ RunPutLong \/ PlaceUvixPPlusOrder \/ NugtSubmit \/ DemoMain \/ Return

SpecOrders == InitOrders /\ [][NextOrders]_vars

(***************************************************************************)
(* The calculator as a state machine                                       *)
(***************************************************************************)
InitCalc ==
    /\ cRef \in CalcRefs
    /\ cBps \in CalcBps
    /\ cStop \in CalcStops
    /\ cTake \in CalcTakes
    /\ cOut = NotComputed
    /\ op = IdleOp /\ res = IdleRes /\ nextId = 1
    /\ PriceIdle
    /\ SelIdle
    /\ JobIdle

DecideLmtStopTake ==
    /\ cOut.calls < MaxCalls
    /\ LET d == decide_lmt_stop_take(cRef, cBps, cStop, cTake)
       IN  cOut' = [lmt |-> d.lmt, stp |-> d.stp, tpf |-> d.tpf, done |-> TRUE,
                    calls |-> cOut.calls + 1]
    /\ UNCHANGED <<cRef, cBps, cStop, cTake, ordVars, priceVars, selVars, jobVars>>

NextCalc == DecideLmtStopTake

SpecCalc == InitCalc /\ [][NextCalc]_vars

(***************************************************************************)
(* The price resolvers as a state machine.  get_prices advances one step   *)
(* of its loop at a time; the other resolvers run to their return.         *)
(***************************************************************************)
MaxSubs == 2
MaxTicks == 2

Fields == {NaN, Num(-1000), Num(0), Num(20000)}
Tickers == {Ticker(l, b, a, c) : l \in Fields, c \in Fields,
                                 b \in {NaN, Num(19990)}, a \in {NaN, Num(20010)}}
\* the quote of vendor sentinels: last = -1, bid = NaN, ask = NaN, close = 0
SentinelQuote == Ticker(Num(-1000), NaN, NaN, Num(0))
PollTickers == {NoTicker, SentinelQuote, Ticker(NaN, Num(19990), Num(20010), NaN),
                Ticker(Num(20000), NaN, NaN, NaN)}
HistBars == {None, NaN, Num(-1000), Num(0), Num(-5000), Num(20000)}
TickSeqs == [1 .. MaxTicks -> PollTickers]
Requests == {[ok |-> FALSE, t |-> NoTicker]} \cup {[ok |-> TRUE, t |-> t] : t \in PollTickers}

TotalSubs == subs["get_prices"] + subs["wait_price"] + subs["_underlying_price"]
             + subs["get_option_mid"] + subs["_mark_price_for_entry"]

PriceStep == UNCHANGED <<calcVars, ordVars, selVars, jobVars>>

Finish(name, price, raised, quote) ==
    /\ pc' = "done"
    /\ fetch' = [IdleFetch EXCEPT !.name = name, !.price = price, !.raised = raised,
                                  !.quote = quote]

\* get_prices: ensure_contracts, md_try, price = None, source = ""
GetPricesStart ==
    /\ pc = "idle"
    /\ \E delay_type \in 1 .. 4 :
         fetch' = [IdleFetch EXCEPT !.name = "get_prices", !.delay_type = delay_type, !.i = 1]
    /\ pc' = "gp_request"
    /\ UNCHANGED subs
    /\ PriceStep

\* the try block: reqMarketDataType, reqMktData, sleep, ticker, safe_price
GetPricesRequest ==
    /\ pc = "gp_request"
    /\ \E outcome \in {"type_fails", "mkt_fails", "ok"}, t \in Tickers \cup {None} :
         LET md == md_try(fetch.delay_type)[fetch.i]
         IN  IF outcome = "ok"
             THEN /\ fetch' = [fetch EXCEPT !.attempts = Append(@, md), !.price = safe_price(t),
                                            !.quote = t]
                  /\ subs' = [subs EXCEPT !["get_prices"] = @ + 1]
             ELSE /\ fetch' = [fetch EXCEPT !.attempts = Append(@, md), !.pending = TRUE]
                  /\ UNCHANGED subs
    /\ pc' = "gp_finally"
    /\ PriceStep

\* the finally block and what follows it: cancelMktData, then the exception goes on, or
\* the price ends the loop, or the next md type is tried, or the loop is over
GetPricesFinally ==
    /\ pc = "gp_finally"
    /\ subs' = [subs EXCEPT !["get_prices"] = 0]
    /\ IF fetch.pending
       THEN /\ fetch' = [fetch EXCEPT !.raised = TRUE, !.pending = FALSE]
            /\ pc' = "done"
       ELSE IF fetch.price # None
       THEN /\ fetch' = [fetch EXCEPT
                           !.source = [kind |-> "TOP", md |-> md_try(fetch.delay_type)[fetch.i]]]
            /\ pc' = "done"
       ELSE IF fetch.i < Len(md_try(fetch.delay_type))
       THEN /\ fetch' = [fetch EXCEPT !.i = @ + 1]
            /\ pc' = "gp_request"
       ELSE /\ fetch' = fetch
            /\ pc' = "gp_hist"
    /\ PriceStep

\* price = _hist_close(ib, s); reqHistoricalData may itself fail
GetPricesHist ==
    /\ pc = "gp_hist"
    /\ \E failed \in BOOLEAN, bars \in HistBars :
         IF failed
         THEN fetch' = [fetch EXCEPT !.hist = TRUE, !.raised = TRUE]
         ELSE fetch' = [fetch EXCEPT !.hist = TRUE, !.bars = bars, !.price = _hist_close(bars),
                                     !.source = IF _hist_close(bars) # None
                                                THEN [kind |-> "HIST(1D close, RTH)", md |-> 0]
                                                ELSE NoSource]
    /\ pc' = "done"
    /\ UNCHANGED subs
    /\ PriceStep

\* wait_price: snapshot, then streaming polls until the timeout; every path that opened
\* a subscription cancels it
WaitPrice ==
    /\ pc = "idle"
    /\ \E fail \in {"none", "snapshot", "stream"}, t0 \in Tickers, ts \in TickSeqs :
         LET px0 == resolve_price(t0)
             r == FirstResolved(ts)
         IN  IF fail = "snapshot" THEN Finish("wait_price", None, TRUE, None)
             ELSE IF Truthy(px0) THEN Finish("wait_price", px0, FALSE, t0)
             ELSE IF fail = "stream" THEN Finish("wait_price", None, TRUE, None)
             ELSE Finish("wait_price", r.price, FALSE, r.quote)
    /\ UNCHANGED subs
    /\ PriceStep

\* _underlying_price: snapshot request, candidates, cancelMktData, first usable or raise
UnderlyingPrice ==
    /\ pc = "idle"
    /\ \E failed \in BOOLEAN, t \in Tickers :
         IF failed THEN Finish("_underlying_price", None, TRUE, None)
         ELSE Finish("_underlying_price", _underlying_price_value(t),
                     _underlying_price_value(t) = None, t)
    /\ UNCHANGED subs
    /\ PriceStep

\* get_option_mid: a streaming request that no path cancels
GetOptionMid ==
    /\ pc = "idle"
    /\ TotalSubs < MaxSubs
    /\ \E failed \in BOOLEAN, ts \in TickSeqs :
         IF failed
         THEN Finish("get_option_mid", None, TRUE, None) /\ UNCHANGED subs
         ELSE /\ Finish("get_option_mid", get_option_mid_value(ts), FALSE, None)
              /\ subs' = [subs EXCEPT !["get_option_mid"] = @ + 1]
    /\ PriceStep

\* _mark_price_for_entry: _fetch_mark_prices' streaming request stays open, its snapshot
\* request ends by itself
MarkPriceForEntry ==
    /\ pc = "idle"
    /\ TotalSubs < MaxSubs
    /\ \E r1 \in {[ok |-> FALSE, t |-> NoTicker]} \cup {[ok |-> TRUE, t |-> t] : t \in Tickers},
          r2 \in Requests, bars \in HistBars :
         LET mark == _mark_price_for_entry(r1, r2, bars)
         IN  /\ Finish("_mark_price_for_entry", mark, mark = None,
                       IF r1.ok THEN r1.t ELSE None)
             /\ subs' = [subs EXCEPT !["_mark_price_for_entry"] = IF r1.ok THEN @ + 1 ELSE @]
    /\ PriceStep

\* the caller takes what the fetch handed back
FetchReturn ==
    /\ pc = "done"
    /\ pc' = "idle"
    /\ fetch' = IdleFetch
    /\ UNCHANGED subs
    /\ PriceStep

InitPrice ==
    /\ PriceIdle
    /\ CalcIdle
    /\ SelIdle
    /\ JobIdle
    /\ op = IdleOp /\ res = IdleRes /\ nextId = 1

NextPrice ==
    \/ GetPricesStart \/ GetPricesRequest \/ GetPricesFinally \/ GetPricesHist
    \/ WaitPrice \/ UnderlyingPrice \/ GetOptionMid \/ MarkPriceForEntry \/ FetchReturn

SpecPrice == InitPrice /\ [][NextPrice]_vars

(***************************************************************************)
(* src/src/ib/uvix_p_plus.py: place_uvix_put_plus_order, the strike chosen  *)
(* from the sorted listed strikes (lines 617-631).  Comparisons are exact:  *)
(* both sides are scaled by BpsOne; the source's eps of 1e-9 is below the   *)
(* scale and changes no comparison here.                                    *)
(***************************************************************************)
Scaled(strikes) == [i \in 1 .. Len(strikes) |-> strikes[i] * BpsOne]
SeqMax(strikes) == CHOOSE x \in Range(strikes) : \A y \in Range(strikes) : y <= x
AtOrAbove(strikes, scaledTarget) == {x \in Range(strikes) : x * BpsOne >= scaledTarget}
\* strike_round.lower() == "ceil"
IsCeil(strike_round) == strike_round \in {"ceil", "CEIL", "Ceil"}

\* a variant that ignores strike_round and the explicit strike
strike_f_nearest(strikes, strike, mark, moneyness_pct, strike_round) ==
    _closest_strike(Scaled(strikes), mark * (BpsOne + moneyness_pct)) \div BpsOne

strike_f(strikes, strike, mark, moneyness_pct, strike_round) ==
    LET target_raw == mark * (BpsOne + moneyness_pct)
        ge0 == AtOrAbove(strikes, strike.v * BpsOne)
        ge == AtOrAbove(strikes, target_raw)
    IN  IF strike # None
        THEN IF strike.v \in Range(strikes) THEN strike.v
             ELSE IF ge0 # {} THEN SetMin(ge0)
             ELSE _closest_strike(strikes, strike.v)
        ELSE IF IsCeil(strike_round)
        THEN IF ge # {} THEN SetMin(ge) ELSE SeqMax(strikes)
        ELSE _closest_strike(Scaled(strikes), target_raw) \div BpsOne

(***************************************************************************)
(* src/src/ib/options.py: pick_uvix_atm_put.  Expiries are days from today *)
(* (their DTE); chain.found is false for a failed or empty chain request.  *)
(***************************************************************************)
\* strikes = [round(0.5 + 0.5*i, 2) for i in range(0, 400)]
FallbackStrikes == [i \in 1 .. 400 |-> 500 * i]
\* base = today + (4 - weekday) % 7, then offs = [0, -7, +7, -14, +14, -21, +21]
FallbackExpiries(todayW) ==
    LET base == (4 - todayW) % 7
    IN  <<base, base - 7, base + 7, base - 14, base + 14, base - 21, base + 21>>

\* sorted(expiries_dte_all, key=|dte|)[0]: the first entry of smallest absolute DTE
RECURSIVE FirstByAbs(_, _)
FirstByAbs(expiries, best) ==
    IF expiries = <<>> THEN best
    ELSE FirstByAbs(Tail(expiries), IF Abs(Head(expiries)) < Abs(best) THEN Head(expiries) ELSE best)

InWindow(x, dte_min, dte_max) == dte_min <= x /\ x <= dte_max

\* [x for x in expiries_dte_all if dte_min <= x[1] <= dte_max]
RECURSIVE Windowed(_, _, _)
Windowed(expiries, dte_min, dte_max) ==
    IF expiries = <<>> THEN <<>>
    ELSE (IF InWindow(Head(expiries), dte_min, dte_max) THEN <<Head(expiries)>> ELSE <<>>)
         \o Windowed(Tail(expiries), dte_min, dte_max)

\* [x for x in expiries_dte_all if x[1] >= 0]
RECURSIVE NotPast(_)
NotPast(expiries) ==
    IF expiries = <<>> THEN <<>>
    ELSE (IF Head(expiries) >= 0 THEN <<Head(expiries)>> ELSE <<>>) \o NotPast(Tail(expiries))

pick_uvix_atm_put(env_conid, chain, manual_price, offset, dte_min, dte_max, todayW) ==
    LET fallback_mode == ~chain.found
        strikes == IF fallback_mode THEN FallbackStrikes ELSE chain.strikes
        expiries == IF fallback_mode THEN FallbackExpiries(todayW) ELSE chain.expirations
        px == manual_price
        candidates == NotPast(expiries)
        windowed == Windowed(expiries, dte_min, dte_max)
        expiries_dte == IF fallback_mode
                        THEN IF candidates # <<>> THEN candidates
                             ELSE <<FirstByAbs(Tail(expiries), Head(expiries))>>
                        ELSE IF windowed # <<>> THEN windowed
                             ELSE <<FirstByAbs(Tail(expiries), Head(expiries))>>
        sum == px.v + offset
        target == IF sum > 500 THEN sum ELSE 500
        Raise == [raised |-> TRUE, expiry |-> 0, strike |-> 0, fallback_mode |-> fallback_mode]
    IN  IF ~env_conid THEN Raise
        ELSE IF ~Truthy(px) \/ ~Gt0(px) THEN Raise
        ELSE IF expiries = <<>> \/ strikes = <<>> THEN Raise
        ELSE [raised |-> FALSE, expiry |-> Head(expiries_dte),
              strike |-> IF px.k = "inf" THEN Head(strikes) ELSE _closest_strike(strikes, target),
              fallback_mode |-> fallback_mode]

(***************************************************************************)
(* The selection state machine: one call of a selection function at a time *)
(***************************************************************************)
Ladders == {Ladder, <<100000>>}
SelMarks == {88000, 95000, 96250, 101200, 104000, 110000}
SelOffsets == {0, 1500}
SelStrikes == {None, Num(100000), Num(101200), Num(120000)}
StrikeRounds == {"ceil", "CEIL", "nearest"}

SelFree == sel.fn = "idle"
Selected(fn, in, out) == sel' = [fn |-> fn, in |-> in, out |-> out] /\ UNCHANGED <<calcVars, ordVars, priceVars, jobVars>>

StrikeF ==
    /\ SelFree
    /\ \E strikes \in Ladders, strike \in SelStrikes, mark \in SelMarks, m \in SelOffsets, mode \in StrikeRounds :
         Selected("strike_f",
                  [strikes |-> strikes, strike |-> strike, mark |-> mark, moneyness_pct |-> m,
                   strike_round |-> mode, target |-> mark * (BpsOne + m)],
                  strike_f(strikes, strike, mark, m, mode))

ClosestStrike ==
    /\ SelFree
    /\ \E strikes \in Ladders, mark \in SelMarks :
         Selected("_closest_strike", [strikes |-> strikes, target |-> mark],
                  _closest_strike(strikes, mark))

\* listed expirations as days from today (negative: already past); todayW is today's weekday
ListedDays == {-3, 0, 1, 2, 4, 9}
Weekdays == 0 .. 6

PickExpiry ==
    /\ SelFree
    /\ \E expirations \in SUBSET ListedDays, todayW \in Weekdays, prefer_friday \in BOOLEAN :
         LET chain == [found |-> TRUE, params |-> TRUE, strikes |-> Ladder,
                       expirations |-> expirations, todayW |-> todayW]
             pick == pick_option_contract("NUGT", "C", 0, prefer_friday, Num(100000), chain, NoTicker)
         IN  Selected("pick_option_contract",
                      [expirations |-> expirations, todayW |-> todayW, prefer_friday |-> prefer_friday],
                      [raised |-> pick.raised, expiry |-> pick.expiry])

\* sorted(chain.expirations) answered by the venue, as DTE
LiveExpiries == {<<>>, <<3>>, <<-2, 3>>, <<-2, 3, 10>>, <<3, 10, 40>>, <<-2, 40>>, <<10, 21>>, <<-2>>}
NoChain == [found |-> FALSE, strikes |-> <<>>, expirations |-> <<>>]
UvixChains == {NoChain} \cup {[found |-> TRUE, strikes |-> Ladder, expirations |-> e] : e \in LiveExpiries}
DteWindows == {<<7, 35>>, <<0, 6>>, <<20, 30>>}
UvixPrices == {None, Num(0), Num(12300), Num(100000)}
UvixOffsets == {0, 500}

PickUvixAtmPut ==
    /\ SelFree
    /\ \E env_conid \in BOOLEAN, chain \in UvixChains, manual_price \in UvixPrices, offset \in UvixOffsets,
          w \in DteWindows, todayW \in Weekdays :
         \* the weekday matters only to the fallback list
         /\ chain.found => todayW = 0
         /\ Selected("pick_uvix_atm_put",
                     [candidates |-> Range(IF chain.found THEN chain.expirations
                                           ELSE FallbackExpiries(todayW)),
                      dte_min |-> w[1], dte_max |-> w[2], manual_price |-> manual_price,
                      offset |-> offset],
                     pick_uvix_atm_put(env_conid, chain, manual_price, offset, w[1], w[2], todayW))

\* one quote: last, bid, ask, close as the vendor delivers them (NaN, the -1 sentinel, a price)
Quotes == {Ticker(l, b, a, c) : l \in {NaN, Num(-1000), Num(20200)}, b \in {NaN, Num(-1000), Num(19900)},
                                a \in {NaN, Num(20100)}, c \in {NaN, Num(0), Num(19000)}}

UnderlyingPriceOf ==
    /\ SelFree
    /\ \E t \in Quotes : Selected("_underlying_price", [t |-> t], _underlying_price_value(t))

ResolvePrice ==
    /\ SelFree
    /\ \E t \in Quotes : Selected("resolve_price", [t |-> t], resolve_price(t))

SafePrice ==
    /\ SelFree
    /\ \E t \in Quotes : Selected("safe_price", [t |-> t], safe_price(t))

SelReturn ==
    /\ ~SelFree
    /\ sel.fn \notin {"build_uvix_put_contract", "connect", "_ensure_connection", "place_uvix_put_plus_order"}
    /\ sel' = NoSelection
    /\ UNCHANGED <<calcVars, ordVars, priceVars, jobVars>>

InitSelect ==
    /\ SelIdle
    /\ JobIdle
    /\ CalcIdle
    /\ PriceIdle
    /\ op = IdleOp /\ res = IdleRes /\ nextId = 1

NextSelect ==
    \/ StrikeF \/ ClosestStrike \/ PickExpiry \/ PickUvixAtmPut
    \/ UnderlyingPriceOf \/ ResolvePrice \/ SafePrice \/ SelReturn

SpecSelect == InitSelect /\ [][NextSelect]_vars

(***************************************************************************)
(* src/src/ib/options.py: build_uvix_put_contract, one venue request per   *)
(* step.  Dates are days from the requested expiry; expiryW is its weekday. *)
(***************************************************************************)
friday_offsets == <<0, -7, 7, -14, 14, -21, 21, -28, 28>>
exch_candidates == <<"CBOEOPT", "CBOE", "BOX", "C2", "SMART">>
strike_offsets == <<0, 500, -500, 1000, -1000>>
\* base_d snapped to the Friday of its week
base_d(expiryW) == IF expiryW # 4 THEN 4 - expiryW ELSE 0

\* a variant that nests the loops the other way round: exchange, then expiry, then strike
next_try_exchange_outer(e, s, x) ==
    IF s < Len(strike_offsets) THEN [e |-> e, s |-> s + 1, x |-> x]
    ELSE IF e < Len(friday_offsets) THEN [e |-> e + 1, s |-> 1, x |-> x]
    ELSE [e |-> IF x < Len(exch_candidates) THEN 1 ELSE Len(friday_offsets) + 1, s |-> 1, x |-> x + 1]

\* the loop indices after a failed attempt; e beyond friday_offsets: every combination tried
next_try(e, s, x) ==
    IF x < Len(exch_candidates) THEN [e |-> e, s |-> s, x |-> x + 1]
    ELSE IF s < Len(strike_offsets) THEN [e |-> e, s |-> s + 1, x |-> 1]
    ELSE [e |-> e + 1, s |-> 1, x |-> 1]

c_try(spec, e, s, x) ==
    [expiry |-> base_d(spec.expiryW) + friday_offsets[e], strike |-> spec.strike + strike_offsets[s],
     exchange |-> exch_candidates[x]]

BuildSpecs == {[expiryW |-> w, strike |-> k] : w \in {1, 4, 6}, k \in {500, 12500}}
NoContract == [expiry |-> 0, strike |-> 0, exchange |-> ""]
Building(pcb, e, s, x, attempts, contract) ==
    [pc |-> pcb, e |-> e, s |-> s, x |-> x, attempts |-> attempts, contract |-> contract]
InBuild(pcb) == sel.fn = "build_uvix_put_contract" /\ sel.out.pc = pcb
BuildStep(out) == sel' = [sel EXCEPT !.out = out] /\ UNCHANGED <<calcVars, ordVars, priceVars, jobVars>>

BuildStart ==
    /\ SelFree
    /\ \E spec \in BuildSpecs :
         Selected("build_uvix_put_contract", spec, Building("qualify", 1, 1, 1, 0, NoContract))

\* qualifyContracts(SMART) then reqContractDetails: both answer, or the search starts
BuildQualify ==
    /\ InBuild("qualify")
    /\ \E qualified \in BOOLEAN :
         IF qualified
         THEN BuildStep(Building("returned", 1, 1, 1, 0,
                                 [expiry |-> 0, strike |-> sel.in.strike, exchange |-> "SMART"]))
         ELSE BuildStep(Building("search", 1, 1, 1, 0, NoContract))

\* reqContractDetails(c_try): details, an empty answer, or an exception (timeout)
BuildTry ==
    /\ InBuild("search")
    /\ \E answer \in {"details", "empty", "raised"} :
         LET o == sel.out
             n == next_try(o.e, o.s, o.x)
             tried == c_try(sel.in, o.e, o.s, o.x)
         IN  IF answer = "details"
             THEN BuildStep(Building("returned", o.e, o.s, o.x, o.attempts + 1, tried))
             ELSE IF n.e > Len(friday_offsets)
             THEN BuildStep(Building("raised", o.e, o.s, o.x, o.attempts + 1, tried))
             ELSE BuildStep(Building("search", n.e, n.s, n.x, o.attempts + 1, tried))

BuildReturn ==
    /\ InBuild("returned") \/ InBuild("raised")
    /\ sel' = NoSelection
    /\ UNCHANGED <<calcVars, ordVars, priceVars, jobVars>>

NextBuild ==
    \/ BuildStart \/ BuildQualify \/ BuildTry \/ BuildReturn

\* every venue request is answered or times out (per_try_timeout), so the loop goes on
SpecBuild == InitSelect /\ [][NextBuild]_vars /\ WF_vars(BuildQualify) /\ WF_vars(BuildTry)

(***************************************************************************)
(* src/src/ib_client.py: IBClient.connect, one loop iteration per step.     *)
(* frozen: cfg is an IBConfig (a frozen dataclass: assigning a field raises *)
(* FrozenInstanceError); the UI passes a plain object instead.              *)
(***************************************************************************)
ConnectAnswers == {"connected", "refused", "md_failed"}
Connecting(pcc, offset, connected, client_id, answer) ==
    [pc |-> pcc, offset |-> offset, connected |-> connected, client_id |-> client_id, answer |-> answer]
InCall(fn, pcc) == sel.fn = fn /\ sel.out.pc = pcc

\* the body of "for offset in range(max_try_ids)" and what follows the loop
connect_iteration(cfg, o, answer) ==
    LET cid == cfg.client_id + o.offset
    IN  IF answer = "connected" /\ ~cfg.frozen
        THEN Connecting("returned", o.offset, TRUE, cid, answer)
        \* refused, reqMarketDataType raised, or the assignment to cfg.client_id raised:
        \* caught (or fallen through), disconnect, next id
        ELSE Connecting(IF o.offset + 1 < cfg.max_try_ids THEN "try" ELSE "raised",
                        o.offset + 1, FALSE, o.client_id, answer)

ConnectConfigs == {[frozen |-> f, client_id |-> b, max_try_ids |-> m] : f \in BOOLEAN, b \in {10, 17}, m \in {1, 3, 10}}

ConnectStart ==
    /\ SelFree
    /\ \E cfg \in ConnectConfigs :
         Selected("connect", cfg, Connecting("try", 0, FALSE, cfg.client_id, ""))

ConnectAttempt ==
    /\ InCall("connect", "try")
    /\ \E answer \in ConnectAnswers : BuildStep(connect_iteration(sel.in, sel.out, answer))

(***************************************************************************)
(* src/src/ib/uvix_p_plus.py: _ensure_connection, one loop iteration per   *)
(* step.  tries counts the ib.connect calls made; the model stops counting *)
(* at MaxTries.                                                            *)
(***************************************************************************)
MaxTries == 5
Ensuring(pcc, attempts, cid, connected, tries) ==
    [pc |-> pcc, attempts |-> attempts, cid |-> cid, connected |-> connected, tries |-> tries]

\* while attempts < 3 and not ib.isConnected(): try connect; except: attempts = 1; cid = 1
_ensure_connection_iteration(o, answer) ==
    IF answer = "connected" THEN Ensuring("returned", o.attempts, o.cid, TRUE, o.tries + 1)
    ELSE LET attempts == 1
         IN  Ensuring(IF attempts < 3 THEN "loop" ELSE "returned", attempts, 1, FALSE, o.tries + 1)

EnsureStart ==
    /\ SelFree
    /\ \E client_id \in {1, 10} :
         Selected("_ensure_connection", [client_id |-> client_id],
                  Ensuring("loop", 0, client_id, FALSE, 0))

EnsureAttempt ==
    /\ InCall("_ensure_connection", "loop")
    /\ sel.out.tries < MaxTries
    /\ \E answer \in {"connected", "refused"} :
         BuildStep(_ensure_connection_iteration(sel.out, answer))

ConnectReturn ==
    /\ sel.fn \in {"connect", "_ensure_connection"} /\ sel.out.pc \in {"returned", "raised"}
    /\ sel' = NoSelection
    /\ UNCHANGED <<calcVars, ordVars, priceVars, jobVars>>

NextConnect ==
    \/ ConnectStart \/ ConnectAttempt \/ EnsureStart \/ EnsureAttempt \/ ConnectReturn

SpecConnect == InitSelect /\ [][NextConnect]_vars

(***************************************************************************)
(* src/src/ib/uvix_p_plus.py: the live price-improvement loop of           *)
(* place_uvix_put_plus_order, one statement per step, and the venue that   *)
(* works the orders meanwhile.  An order at the venue is its limit, its    *)
(* status and the quantity filled so far; the last order of the sequence   *)
(* is the one `trade` refers to.  Prices in mills.                         *)
(***************************************************************************)
MaxImprove == 2
ImproveQtys == {1, 2}
ImproveTicks == {10, 50}
ImproveAsks == {None, Num(1200)}
ImproveLimits == {1000, 5}
ImproveSpecs ==
    {[qty |-> q, limit_v |-> l, ask |-> a, tick |-> t, max_improve_ticks |-> m] :
        q \in ImproveQtys, l \in ImproveLimits, a \in ImproveAsks, t \in ImproveTicks, m \in 0 .. MaxImprove}

\* str.capitalize(): first character upper case, the rest lower case
capitalize(st) ==
    CASE st = "ApiCancelled" -> "Apicancelled"
      [] st = "PendingCancel" -> "Pendingcancel"
      [] st = "PreSubmitted" -> "Presubmitted"
      [] OTHER -> st

\* status in ("Filled", "ApiCancelled"), status being the capitalized text
stops(st) == capitalize(st) \in {"Filled", "ApiCancelled"}

Working(o) == o.status \in {"Submitted", "PendingCancel"}
VenueOrder(limit) == [limit |-> limit, status |-> "Submitted", filled |-> 0]
Improving(pcc, attempt, last_limit, orders, seen) ==
    [pc |-> pcc, attempt |-> attempt, last_limit |-> last_limit, orders |-> orders, seen |-> seen]
trade_status == sel.out.orders[Len(sel.out.orders)].status

\* new_limit = round(base + attempt * float(tick), 2)
new_limit(spec, attempt, last_limit) ==
    LET base == IF spec.ask # None THEN spec.ask.v ELSE last_limit
    IN  MillsPerCent * RoundHalfEven(base + attempt * spec.tick, MillsPerCent)

\* trade = ib.placeOrder(opt, parent); ib.sleep(0.1); attempt = 0; last_limit = limit_v
ImproveStart ==
    /\ SelFree
    /\ \E spec \in ImproveSpecs :
         Selected("place_uvix_put_plus_order", spec,
                  Improving("while", 0, spec.limit_v, <<VenueOrder(spec.limit_v)>>, ""))

\* while attempt < int(max_improve_ticks): status = ...; if status in (...): break
ImproveCheck ==
    /\ InCall("place_uvix_put_plus_order", "while")
    /\ BuildStep([sel.out EXCEPT !.seen = trade_status,
                                 !.pc = IF sel.out.attempt >= sel.in.max_improve_ticks THEN "returned"
                                        ELSE IF stops(trade_status) THEN "returned"
                                        ELSE "sleep"])

\* ib.sleep(improve_wait_sec); status = ...; if ...: break; attempt += 1; ib.cancelOrder(trade.order)
ImproveCancel ==
    /\ InCall("place_uvix_put_plus_order", "sleep")
    /\ LET n == Len(sel.out.orders)
       IN  BuildStep(IF stops(trade_status)
                     THEN [sel.out EXCEPT !.seen = trade_status, !.pc = "returned"]
                     ELSE [sel.out EXCEPT !.seen = trade_status, !.pc = "replace",
                                          !.attempt = @ + 1,
                                          !.orders[n].status = IF @ = "Submitted" THEN "PendingCancel" ELSE @])

\* ib.sleep(0.3); trade = ib.placeOrder(opt, LimitOrder("BUY", qty, new_limit)); last_limit = new_limit
ImproveReplace ==
    /\ InCall("place_uvix_put_plus_order", "replace")
    /\ LET nl == new_limit(sel.in, sel.out.attempt, sel.out.last_limit)
       IN  BuildStep([sel.out EXCEPT !.pc = "while", !.last_limit = nl,
                                    !.orders = Append(@, VenueOrder(nl))])

\* the venue fills k more contracts of an order that is still working
VenueFill ==
    /\ sel.fn = "place_uvix_put_plus_order"
    /\ \E i \in 1 .. Len(sel.out.orders) : \E k \in 1 .. sel.in.qty :
         /\ Working(sel.out.orders[i])
         /\ sel.out.orders[i].filled + k <= sel.in.qty
         /\ BuildStep([sel.out EXCEPT !.orders[i].filled = @ + k,
                                      !.orders[i].status =
                                          IF sel.out.orders[i].filled + k = sel.in.qty THEN "Filled" ELSE @])

\* the venue cancels a working order: on the program's request, or on its own
\* (the operator in TWS, the exchange)
VenueCancel ==
    /\ sel.fn = "place_uvix_put_plus_order"
    /\ \E i \in 1 .. Len(sel.out.orders) : \E st \in {"Cancelled", "ApiCancelled"} :
         /\ Working(sel.out.orders[i])
         /\ BuildStep([sel.out EXCEPT !.orders[i].status = st])

ImproveReturn ==
    /\ InCall("place_uvix_put_plus_order", "returned")
    /\ sel' = NoSelection
    /\ UNCHANGED <<calcVars, ordVars, priceVars, jobVars>>

NextImprove ==
    \/ ImproveStart \/ ImproveCheck \/ ImproveCancel \/ ImproveReplace
    \/ VenueFill \/ VenueCancel \/ ImproveReturn

SpecImprove == InitSelect /\ [][NextImprove]_vars

(***************************************************************************)
(* src/src/ib/options.py: what resolve_option_fast, get_uvix_stock,        *)
(* pick_uvix_atm_put and build_uvix_put_contract do to ib.RequestTimeout,  *)
(* one venue request per step.  Timeouts in seconds; None: the client has  *)
(* no such attribute; is_int: the value is a Python int (not a float).     *)
(***************************************************************************)
MaxCandidates == 3
per_try_timeout == 12
TimeoutFns == {"resolve_option_fast", "get_uvix_stock", "pick_uvix_atm_put", "build_uvix_put_contract"}
TimeoutValues == {None, Num(0), Num(6), Num(40)}
VenueAnswers == {"ok", "empty", "raise"}
Max2(a, b) == IF a >= b THEN a ELSE b

\* the value RequestTimeout is given on entering the try block
entry_timeout(fn, default_to, is_int, try_qualify_sec) ==
    CASE fn = "resolve_option_fast" -> Num(Max2(1, try_qualify_sec))
      [] fn = "get_uvix_stock" -> Num(6)
      [] OTHER -> Num(Max2(35, IF is_int THEN default_to.v ELSE 35))

\* a variant that restores only a non-zero timeout
finally_restore_truthy(saved, current) == IF Truthy(saved) THEN saved ELSE current
\* finally: if default_to is not None: ib.RequestTimeout = default_to
finally_restore(saved, current) == IF saved # None THEN saved ELSE current

Timing(pcc, rt, default_to, saved_to, left, exit) ==
    [pc |-> pcc, RequestTimeout |-> rt, default_to |-> default_to, saved_to |-> saved_to,
     left |-> left, exit |-> exit]
InTiming(pcc) == sel.fn \in TimeoutFns /\ sel.out.pc = pcc
Exit(o, how) == [o EXCEPT !.pc = "finally", !.exit = how]

\* default_to = getattr(ib, "RequestTimeout", None); try: if default_to is not None: ...
TimeoutStart ==
    /\ SelFree
    /\ \E fn \in TimeoutFns, before \in TimeoutValues, is_int \in BOOLEAN, q \in {0, 3},
          n \in 1 .. MaxCandidates, env_conid \in BOOLEAN :
         /\ fn \in {"resolve_option_fast", "pick_uvix_atm_put"} => n = 1
         /\ fn # "pick_uvix_atm_put" => env_conid
         /\ Selected(fn, [before |-> before, is_int |-> is_int, try_qualify_sec |-> q, candidates |-> n],
                     IF ~env_conid THEN Timing("raised", before, None, None, n, "raised")
                     ELSE Timing("request",
                                 IF before # None THEN entry_timeout(fn, before, is_int, q) ELSE before,
                                 before, None, n, ""))

\* the request inside the outer try: qualifyContracts, reqContractDetails, reqSecDefOptParams
TimeoutRequest ==
    /\ InTiming("request")
    /\ \E answer \in VenueAnswers, rest \in {"returned", "raised"} :
         LET o == sel.out
             left == o.left - 1
         IN  BuildStep(
               CASE sel.fn = "resolve_option_fast" -> Exit(o, "returned")
                 [] sel.fn = "pick_uvix_atm_put" -> Exit(o, rest)
                 [] sel.fn = "get_uvix_stock" ->
                      IF answer = "ok" THEN Exit(o, "returned")
                      ELSE IF left = 0 THEN Exit([o EXCEPT !.left = 0], "raised")
                      ELSE [o EXCEPT !.left = left]
                 [] OTHER ->
                      IF answer = "ok" THEN Exit(o, "returned")
                      ELSE [o EXCEPT !.pc = "fallback", !.saved_to = o.RequestTimeout])

\* build_uvix_put_contract, the fallback loop: if saved_to is not None: RequestTimeout = per_try_timeout
TimeoutFallbackSet ==
    /\ InTiming("fallback")
    /\ BuildStep([sel.out EXCEPT !.pc = "fallback_request",
                                 !.RequestTimeout = IF sel.out.saved_to # None THEN Num(per_try_timeout) ELSE @])

\* cds = ib.reqContractDetails(c_try) ... finally: if saved_to is not None: RequestTimeout = saved_to
TimeoutFallbackRequest ==
    /\ InTiming("fallback_request")
    /\ \E answer \in VenueAnswers :
         LET o == [sel.out EXCEPT !.RequestTimeout = finally_restore(sel.out.saved_to, @),
                                  !.left = @ - 1]
         IN  BuildStep(IF answer = "ok" THEN Exit(o, "returned")
                       ELSE IF o.left = 0 THEN Exit(o, "raised")
                       ELSE [o EXCEPT !.pc = "fallback"])

\* the outer finally clause, then the return or the raise
TimeoutFinally ==
    /\ InTiming("finally")
    /\ BuildStep([sel.out EXCEPT !.pc = sel.out.exit,
                                 !.RequestTimeout = finally_restore(sel.out.default_to, @)])

TimeoutReturn ==
    /\ sel.fn \in TimeoutFns /\ sel.out.pc \in {"returned", "raised"}
    /\ sel' = NoSelection
    /\ UNCHANGED <<calcVars, ordVars, priceVars, jobVars>>

NextTimeout ==
    \/ TimeoutStart \/ TimeoutRequest \/ TimeoutFallbackSet \/ TimeoutFallbackRequest
    \/ TimeoutFinally \/ TimeoutReturn

SpecTimeout == InitSelect /\ [][NextTimeout]_vars

(***************************************************************************)
(* src/streamlit_app.py: the background job machinery.  The UI thread runs *)
(* the submit handlers, the worker thread runs _worker; one statement per  *)
(* step.  A job id is "<kind>-<int(time.time())>": its kind and the second *)
(* of its submission.  What a dispatched operation does is in SpecOrders;  *)
(* here it only returns or raises.                                         *)
(***************************************************************************)
MaxSubmits == 3
UiOnly == UNCHANGED <<calcVars, ordVars, priceVars, selVars, worker>>
WorkerOnly == UNCHANGED <<calcVars, ordVars, priceVars, selVars, ui, job_q>>
outcome_status_requeue(raised) == IF raised THEN "queued" ELSE "done"
outcome_status(raised) == IF raised THEN "error" ELSE "done"
Write(thread, jid, status) ==
    /\ job_res' = [job_res EXCEPT ![jid] = status]
    /\ writers' = [writers EXCEPT ![jid] = @ \cup {<<thread, status>>}]

\* time.time() moves on to the next second
Tick ==
    /\ ui.clock < MaxClock
    /\ ui' = [ui EXCEPT !.clock = @ + 1]
    /\ UiOnly /\ UNCHANGED <<job_q, job_res, writers>>

\* st.session_state.job_res[jid] = {"status": "queued", ...}
UiSubmit ==
    /\ ui.pc = "form" /\ ui.submitted < MaxSubmits
    /\ \E kind \in JobKinds :
         /\ Write("ui", <<kind, ui.clock>>, "queued")
         /\ ui' = [ui EXCEPT !.pc = "put", !.jid = <<kind, ui.clock>>]
    /\ UiOnly /\ UNCHANGED job_q

\* st.session_state.job_q.put({...})
UiPut ==
    /\ ui.pc = "put"
    /\ job_q' = Append(job_q, ui.jid)
    /\ ui' = [ui EXCEPT !.pc = "form", !.submitted = @ + 1]
    /\ UiOnly /\ UNCHANGED <<job_res, writers>>

\* job = job_q.get()
WorkerGet ==
    /\ worker.pc = "get" /\ job_q # <<>>
    /\ worker' = [pc |-> "running", jid |-> Head(job_q), runs |-> 0, raised |-> FALSE, task_done |-> 0]
    /\ job_q' = Tail(job_q)
    /\ UNCHANGED <<calcVars, ordVars, priceVars, selVars, ui, job_res, writers>>

\* res[jid] = {"status": "running", ...}
WorkerRunning ==
    /\ worker.pc = "running"
    /\ Write("worker", worker.jid, "running")
    /\ worker' = [worker EXCEPT !.pc = "dispatch"]
    /\ WorkerOnly

\* logs = _dispatch_job(job), at line 177 and again at line 179
WorkerDispatch ==
    /\ worker.pc \in {"dispatch", "dispatch_again"}
    /\ \E raises \in BOOLEAN :
         worker' = [worker EXCEPT !.runs = @ + 1, !.raised = raises,
                                  !.pc = IF raises THEN "record"
                                         ELSE IF worker.pc = "dispatch" THEN "dispatch_again"
                                         ELSE "record"]
    /\ WorkerOnly /\ UNCHANGED <<job_res, writers>>

\* res[jid] = {"status": "done" | "error", ...}
WorkerRecord ==
    /\ worker.pc = "record"
    /\ Write("worker", worker.jid, outcome_status(worker.raised))
    /\ worker' = [worker EXCEPT !.pc = "task_done"]
    /\ WorkerOnly

\* finally: job_q.task_done()
WorkerTaskDone ==
    /\ worker.pc = "task_done"
    /\ worker' = [worker EXCEPT !.pc = "get", !.task_done = @ + 1]
    /\ WorkerOnly /\ UNCHANGED <<job_res, writers>>

InitJobs ==
    /\ JobIdle
    /\ SelIdle
    /\ CalcIdle
    /\ PriceIdle
    /\ op = IdleOp /\ res = IdleRes /\ nextId = 1

NextJobs ==
    \/ Tick \/ UiSubmit \/ UiPut
    \/ WorkerGet \/ WorkerRunning \/ WorkerDispatch \/ WorkerRecord \/ WorkerTaskDone

SpecJobs == InitJobs /\ [][NextJobs]_vars

(***************************************************************************)
(* Properties of the order helpers and entry points (SpecOrders)           *)
(***************************************************************************)
DryRunHelpers == {"market", "limit_", "stop_pct", "bracket_buy_with_stop", "sell_option",
                  "buy_option", "place_manual_order"}
BracketOps == {"bracket_buy_with_stop", "run_nugt_cc", "run_tmf_cc", "run_etf_buy_with_stop",
               "nugt_submit", "place_uvix_p_plus_order"}
CoveredCallOps == {"run_nugt_cc", "run_tmf_cc", "run_covered_call", "nugt_submit"}
PlanningOps == {"run_covered_call", "run_nugt_cc", "run_tmf_cc", "run_etf_buy_with_stop",
                "place_uvix_p_plus_order"}

IsStock(o) == o.sec = "STK"
IsOption(o) == o.sec = "OPT"
StockSent == SelectSeq(res.sent, IsStock)
OptionSent == SelectSeq(res.sent, IsOption)

\* C1: a helper called with dry_run true never calls placeOrder, whatever its other
\* arguments; bracket_buy_with_stop then returns its two orders and None for the trade.
C1_DryRunNeverPlaces ==
    (op.name \in DryRunHelpers /\ op.dry_run) =>
        /\ res.sent = <<>>
        /\ op.name = "bracket_buy_with_stop" =>
              /\ res.trade = 0
              /\ Len(res.built) = 2
              /\ res.built[1].action = "BUY" /\ res.built[2].orderType = "STP"

C1_Witness ==
    /\ op.name = "bracket_buy_with_stop" /\ op.dry_run
    /\ Len(res.built) = 2 /\ res.trade = 0 /\ res.sent = <<>>

\* C2: when no reference price reaches the order routine (the handler's price is None,
\* run_covered_call gets no manual_price, or run_put_long has no manual price and
\* _underlying_price raises), no quantity is computed and no order is built or sent.
NoPriceAvailable ==
    \/ op.name \in {"nugt_submit", "run_covered_call"} /\ op.ref = None
    \/ /\ op.name = "run_put_long" /\ ~op.dry_run
       /\ ~Truthy(op.ref) /\ _underlying_price_value(op.tk) = None

C2_NoPriceNoOrder ==
    NoPriceAvailable => res.qty = -1 /\ res.built = <<>> /\ res.sent = <<>>

C2_Witness ==
    /\ op.name = "run_covered_call" /\ op.ref = None /\ ~op.dry_run /\ op.budget > 0
    /\ res.built = <<>> /\ res.status = "returned"

\* C3: a live bracket submission sends the parent BUY first, then the child stop with
\* parentId equal to the id the venue gave the parent; one parent, one child, same quantity.
C3_ParentBeforeChild ==
    (/\ op.name \in BracketOps /\ ~op.dry_run /\ op.hasStop
     /\ res.sent # <<>>) =>
        /\ Len(StockSent) = 2
        /\ Len(res.sent) >= 2
        /\ LET parent == res.sent[1]
               child == res.sent[2]
           IN  /\ parent.sec = "STK" /\ parent.action = "BUY" /\ parent.parentId = 0
               /\ parent.orderId > 0
               /\ child.sec = "STK" /\ child.action = "SELL" /\ child.orderType = "STP"
               /\ child.parentId = parent.orderId
               /\ child.orderId # parent.orderId
               /\ child.totalQuantity = parent.totalQuantity

C3_Witness ==
    /\ op.name = "place_uvix_p_plus_order" /\ ~op.dry_run /\ op.hasStop
    /\ Len(res.sent) = 2 /\ res.sent[2].parentId = res.sent[1].orderId
    /\ res.sent[1].orderId > 1

\* a bracket was built by the last call: a parent BUY followed by a child stop
BracketBuilt ==
    /\ op.name \in BracketOps /\ op.hasStop
    /\ Len(res.built) >= 2
    /\ res.built[1].sec = "STK" /\ res.built[1].action = "BUY"
    /\ res.built[2].sec = "STK" /\ res.built[2].orderType = "STP"

C25_ParentHeldUntilStopSent ==
    (/\ op.name \in BracketOps /\ ~op.dry_run /\ op.hasStop
     /\ Len(res.sent) >= 2 /\ res.sent[2].parentId = res.sent[1].orderId) =>
        /\ ~res.sent[1].transmit
        /\ res.sent[2].transmit

\* C5 as stated: in live mode a covered-call path sends the call SELL only after the
\* parent BUY was observed Filled, and otherwise returns normally without an option order
C5_CallAfterFill ==
    (op.name \in CoveredCallOps /\ ~op.dry_run) =>
        /\ OptionSent # <<>> => "Filled" \in Range(res.polled)
        /\ (StockSent # <<>> /\ "Filled" \notin Range(res.polled)) =>
              OptionSent = <<>> /\ res.status = "returned"

\* C9 as stated: a reference price that is not finite and positive, or a budget below
\* one unit at the reference price, leaves no order constructed or submitted
BadReference == ~(op.ref.k = "num" /\ op.ref.v > 0)
BudgetBelowOneUnit == op.sized /\ op.ref.k = "num" /\ op.ref.v > 0 /\ op.budget < op.ref.v

C9_InvalidInputFailsFast ==
    (op.name \in PlanningOps /\ (BadReference \/ BudgetBelowOneUnit)) =>
        res.built = <<>> /\ res.sent = <<>>

\* C13 as stated: shares = floor(budget / price), contracts = floor(shares / 100); under
\* 100 shares the call leg is not produced and a skip message is, the stock entry and
\* stop still are; contracts * 100 never exceeds the shares
SizingOps == {"run_covered_call", "run_nugt_cc", "run_tmf_cc", "nugt_submit", "demo_main"}
SkipLines == {"PLAN C- skipped", "Option skipped: under 100 shares", "skip: under 100 shares"}
CallLines == {"OPT MKT SELL", "OPT SELL CALL"}
OptionBuilt == SelectSeq(res.built, IsOption)
StockLinesOrOrders ==
    \/ Len(SelectSeq(res.built, IsStock)) = 2
    \/ {"STOCK LMT", "STOCK STP"} \subseteq Range(res.log)

C13_Sizing ==
    (/\ op.name \in SizingOps /\ op.ref.k = "num" /\ op.ref.v > 0
     /\ res.qty >= 0) =>
        /\ res.qty = op.budget \div op.ref.v
        /\ \A i \in 1 .. Len(OptionBuilt) : OptionBuilt[i].totalQuantity * 100 <= res.qty
        /\ (res.qty >= 1 /\ res.qty < 100 /\ res.status = "returned") =>
              /\ OptionBuilt = <<>>
              /\ Range(res.log) \cap CallLines = {}
              /\ (Range(res.log) \cup Range(res.msgs)) \cap SkipLines # {}
              /\ StockLinesOrOrders

BudgetOps == {"run_covered_call", "run_nugt_cc", "run_tmf_cc", "run_etf_buy_with_stop", "place_uvix_p_plus_order"}
EntryOrders == {i \in 1 .. Len(res.built) : res.built[i].action = "BUY" /\ res.built[i].orderType = "LMT"}

\* C29 as stated: an entry order sized from a budget costs, at its limit price, no more
\* than the budget (quantity times limit, both in mills)
C29_CostWithinBudget ==
    (op.name \in BudgetOps /\ op.sized /\ res.status = "returned") =>
        \A i \in EntryOrders :
            res.built[i].totalQuantity * res.built[i].lmtPrice.v <= op.budget

\* C15 as stated, for run_put_long: the target strike it reports, in the dry-run plan as
\* on the live path, is P * (1 - o) for its put (to the cent)
C15_PutTargetBelowReference ==
    (op.name = "run_put_long" /\ res.status = "returned" /\ res.target # -1) =>
        Abs(res.target * BpsOne - op.ref.v * (BpsOne - PutOffset)) <= MillsPerCent * BpsOne

\* C20 as stated: a dry run of run_covered_call with a positive manual price completes,
\* never asks the price resolver, and logs STOCK LMT BUY, then STOCK STP SELL, then,
\* when at least 100 shares are bought, OPT MKT SELL
C20_DryRunPreviewLines ==
    (op.name = "run_covered_call" /\ op.dry_run /\ op.ref.k = "num" /\ op.ref.v > 0) =>
        /\ res.status = "returned"
        /\ res.calls = 0
        /\ res.sent = <<>>
        /\ res.qty >= 1 =>
              /\ Len(res.log) >= 2 /\ res.log[1] = "STOCK LMT" /\ res.log[2] = "STOCK STP"
              /\ res.qty >= 100 => (Len(res.log) = 3 /\ res.log[3] = "OPT MKT SELL")
              /\ res.qty < 100 => "OPT MKT SELL" \notin Range(res.log)

(***************************************************************************)
(* Properties of the calculator (SpecCalc)                                 *)
(***************************************************************************)
\* C10 as stated: the rounded limit is never below a positive reference price
C10_LimitAtLeastReference ==
    (cOut.done /\ cRef > 0 /\ cBps >= 0) => cOut.lmt >= cRef

\* C11 as stated: for a positive reference and 0 < stop_pct < 1 the rounded stop price
\* is strictly below the reference price
C11_StopBelowReference ==
    (cOut.done /\ cRef > 0 /\ 0 < cStop /\ cStop < BpsOne) => cOut.stp < cRef

\* x (in mills) is a whole number of cents nearest to the exact product mills * factorBps
NearestCent(x, mills, factorBps) ==
    /\ x % MillsPerCent = 0
    /\ 2 * (x * BpsOne - mills * factorBps) <= MillsPerCent * BpsOne
    /\ 2 * (mills * factorBps - x * BpsOne) <= MillsPerCent * BpsOne

C12_Rounded ==
    cOut.done =>
        /\ NearestCent(cOut.lmt, cRef, BpsOne + cBps)
        /\ NearestCent(cOut.stp, cRef, BpsOne - cStop)
        /\ cTake = None => cOut.tpf = None
        /\ cTake # None => /\ cOut.tpf # None
                            /\ NearestCent(cOut.tpf.v, cRef, BpsOne + cTake.v)
        /\ (cRef = 100000 /\ cBps = 15 /\ cStop = 600 /\ cTake = None) =>
              cOut.lmt = 100150 /\ cOut.stp = 94000 /\ cOut.tpf = None

\* C12: decide_lmt_stop_take returns P*(1 + bps/10000), P*(1 - stop_pct) and
\* P*(1 + take_profit_pct), each rounded to the nearest cent on its own, no take-profit
\* when none is configured; (100.0, 15, 0.06, None) gives (100.15, 94.00, None); a
\* second call with the same arguments returns the same triple.
C12_CalculatorFormula ==
    /\ []C12_Rounded
    /\ [][cOut.done => (cOut'.lmt = cOut.lmt /\ cOut'.stp = cOut.stp /\ cOut'.tpf = cOut.tpf)]_vars

C12_Witness ==
    /\ cOut.calls = 2 /\ cRef = 100000 /\ cBps = 15 /\ cStop = 600 /\ cTake = None
    /\ cOut.lmt = 100150 /\ cOut.stp = 94000

(***************************************************************************)
(* Properties of the price resolvers (SpecPrice)                           *)
(***************************************************************************)
PriceResolvers == {"get_prices", "wait_price", "_underlying_price", "_mark_price_for_entry"}

\* C6 as stated: every price a resolver hands to its caller is finite and > 0, so the
\* sentinel quote and a hist bar closing at 0 or below never become the price
C6_PricesFinitePositive ==
    (pc = "done" /\ fetch.name \in PriceResolvers /\ ~fetch.raised /\ fetch.price # None) =>
        fetch.price.k = "num" /\ fetch.price.v > 0

\* C7 as stated: get_prices tries delay_type, then 4, 1, 2 without it, each once and in
\* that order; a type without a usable value, empty or failed, is followed by the next;
\* the first price ends the attempts; hist comes only after all types and is tagged
C7_FallbackOrder ==
    (pc = "done" /\ fetch.name = "get_prices") =>
        LET try == md_try(fetch.delay_type)
            n == Len(fetch.attempts)
        IN  /\ n <= Len(try) /\ fetch.attempts = SubSeq(try, 1, n)
            /\ fetch.source.kind = "TOP" => fetch.source.md = fetch.attempts[n]
            /\ fetch.hist => fetch.attempts = try
            /\ fetch.source.kind # "TOP" => fetch.attempts = try /\ fetch.hist
            /\ (fetch.hist /\ fetch.price # None) => fetch.source.kind = "HIST(1D close, RTH)"

\* C8 as stated: once a fetch has returned or raised, no subscription it opened is open
C8_NoOpenSubscription ==
    pc \in {"idle", "done"} => TotalSubs = 0

(***************************************************************************)
(* Properties of the selection functions (SpecSelect)                      *)
(***************************************************************************)
TargetMode == sel.fn = "strike_f" /\ sel.in.strike = None
RoundUp == TargetMode /\ IsCeil(sel.in.strike_round)
Nearest == TargetMode /\ ~IsCeil(sel.in.strike_round)
IsNearest(x, strikes, target, scale) ==
    /\ x \in Range(strikes)
    /\ \A y \in Range(strikes) : Abs(x * scale - target) <= Abs(y * scale - target)
IsRoundUp(x, strikes, target) ==
    /\ x \in Range(strikes)
    /\ x * BpsOne >= target
    /\ \A y \in Range(strikes) : y * BpsOne >= target => x <= y

\* C14 as stated: nearest mode gives the listed strike closest to the target, round-up
\* mode gives the smallest listed strike at or above the target, whatever the target
C14_RoundUpAlwaysAtOrAbove ==
    /\ Nearest => IsNearest(sel.out, sel.in.strikes, sel.in.target, BpsOne)
    /\ sel.fn = "_closest_strike" => IsNearest(sel.out, sel.in.strikes, sel.in.target, 1)
    /\ RoundUp => IsRoundUp(sel.out, sel.in.strikes, sel.in.target)

\* C14 amended: nearest mode gives the listed strike closest to the target; round-up mode
\* gives the smallest listed strike at or above the target when there is one and the
\* largest listed strike when the target is above the whole ladder; the result is always
\* a listed strike, and for the ladder 95..105 and target 101.2 it is 100 and 102.5
C14_StrikeSelection ==
    /\ Nearest => IsNearest(sel.out, sel.in.strikes, sel.in.target, BpsOne)
    /\ sel.fn = "_closest_strike" => IsNearest(sel.out, sel.in.strikes, sel.in.target, 1)
    /\ (RoundUp /\ AtOrAbove(sel.in.strikes, sel.in.target) # {}) =>
          IsRoundUp(sel.out, sel.in.strikes, sel.in.target)
    /\ (RoundUp /\ AtOrAbove(sel.in.strikes, sel.in.target) = {}) =>
          sel.out = SeqMax(sel.in.strikes)
    /\ sel.fn \in {"strike_f", "_closest_strike"} => sel.out \in Range(sel.in.strikes)
    /\ (TargetMode /\ sel.in.strikes = Ladder /\ sel.in.target = 101200 * BpsOne) =>
          sel.out = IF RoundUp THEN 102500 ELSE 100000

C14_Witness ==
    /\ RoundUp /\ sel.in.strikes = Ladder /\ sel.in.target = 101200 * BpsOne
    /\ sel.out = 102500

OnOrAfterToday == {d \in sel.in.expirations : d >= 0}
FridaysAhead == {d \in OnOrAfterToday : Weekday(sel.in.todayW, d) = 4}
EarliestOf(d, S) == d \in S /\ \A e \in S : d <= e

\* C16: with prefer-weekly the expiry is the earliest listed Friday on or after today, or
\* the earliest listed date on or after today when none of those is a Friday; without
\* prefer-weekly it is the earliest listed date on or after today; the selection fails
\* exactly when nothing is listed on or after today; the result is listed and not past
C16_ExpirySelection ==
    sel.fn = "pick_option_contract" =>
        /\ sel.out.raised <=> OnOrAfterToday = {}
        /\ ~sel.out.raised => sel.out.expiry \in OnOrAfterToday
        /\ (sel.in.prefer_friday /\ FridaysAhead # {}) => EarliestOf(sel.out.expiry, FridaysAhead)
        /\ ((~sel.in.prefer_friday \/ FridaysAhead = {}) /\ OnOrAfterToday # {}) =>
              EarliestOf(sel.out.expiry, OnOrAfterToday)

C16_Witness ==
    /\ sel.fn = "pick_option_contract" /\ sel.in.prefer_friday
    /\ sel.out.expiry \in FridaysAhead
    /\ \E d \in OnOrAfterToday : d < sel.out.expiry

CandidatesInWindow == {d \in sel.in.candidates : InWindow(d, sel.in.dte_min, sel.in.dte_max)}

\* C17 as stated: pick_uvix_atm_put returns an expiry inside [dte_min, dte_max] whenever a
\* candidate lies in the window, and otherwise the candidate of smallest absolute DTE,
\* for the live chain and for the synthetic weekly list alike
C17_ExpiryInDteWindow ==
    (sel.fn = "pick_uvix_atm_put" /\ ~sel.out.raised) =>
        /\ CandidatesInWindow # {} => sel.out.expiry \in CandidatesInWindow
        /\ CandidatesInWindow = {} =>
              /\ sel.out.expiry \in sel.in.candidates
              /\ \A d \in sel.in.candidates : Abs(sel.out.expiry) <= Abs(d)

Extractors == {"_underlying_price", "resolve_price", "safe_price"}
BothSidesPositive(t) == t.bid.k = "num" /\ t.ask.k = "num" /\ t.bid.v > 0 /\ t.ask.v > 0
ClaimedPrecedence(t) ==
    <<t.last, IF BothSidesPositive(t) THEN HalfSum(t.bid, t.ask) ELSE None, t.close, marketPrice(t)>>

\* C19 as stated: every extractor returns the first finite positive value of last, the
\* bid/ask midpoint (both sides present and positive), previous close, vendor market price
C19_QuotePrecedence ==
    sel.fn \in Extractors => sel.out = FirstPositive(ClaimedPrecedence(sel.in.t))

(***************************************************************************)
(* Properties of build_uvix_put_contract (SpecBuild)                       *)
(***************************************************************************)
InSearch == sel.fn = "build_uvix_put_contract" /\ sel.out.attempts > 0
AllCombinations == Len(friday_offsets) * Len(strike_offsets) * Len(exch_candidates)
\* the n-th combination of the nested order expiry, then strike, then exchange
NthCombination(n) ==
    [expiry |-> base_d(sel.in.expiryW)
                + friday_offsets[((n - 1) \div (Len(strike_offsets) * Len(exch_candidates))) + 1],
     strike |-> sel.in.strike + strike_offsets[(((n - 1) \div Len(exch_candidates)) % Len(strike_offsets)) + 1],
     exchange |-> exch_candidates[((n - 1) % Len(exch_candidates)) + 1]]

C18_InOrder ==
    InSearch =>
        /\ sel.out.attempts <= AllCombinations
        /\ sel.out.contract = NthCombination(sel.out.attempts)
        /\ sel.out.pc = "raised" => sel.out.attempts = AllCombinations
C18_NoLaterAttempt ==
    (InBuild("returned") \/ InBuild("raised")) => sel' = NoSelection
C18_OneAtATime ==
    (InBuild("search") /\ sel' # sel) => sel'.out.attempts = sel.out.attempts + 1

ConnectTried == sel.fn = "connect" /\ sel.out.offset + (IF sel.out.pc = "returned" THEN 1 ELSE 0) > 0

\* C21 as stated: connect tries base, base+1, ... at most max_try_ids times; the first
\* attempt that connects returns with the connection open and cfg.client_id the id used;
\* it raises only when every attempt failed, for an IBConfig as for any other config
C21_ConnectReturnsOnFirstSuccess ==
    ConnectTried =>
        /\ sel.out.offset <= sel.in.max_try_ids
        /\ sel.out.answer = "connected" =>
              /\ sel.out.pc = "returned" /\ sel.out.connected
              /\ sel.out.client_id = sel.in.client_id + sel.out.offset
        /\ sel.out.pc = "raised" => sel.out.offset = sel.in.max_try_ids /\ sel.out.answer # "connected"

\* C23 as stated: _ensure_connection calls ib.connect at most 3 times and then returns
C23_AtMostThreeAttempts ==
    sel.fn = "_ensure_connection" => sel.out.tries <= 3

(***************************************************************************)
(* Properties of the background jobs (SpecJobs)                            *)
(***************************************************************************)
\* C22 as stated: only the background worker writes a job's status record, so no record
\* is written by two threads
C22_WorkerIsOnlyWriter ==
    \A j \in JobIds : \A w \in writers[j] : w[1] = "worker"

\* C22 as the code has it: the submitting UI thread writes the "queued" record and nothing
\* else, the worker writes every later status ("running", "done", "error") and never "queued"
C22_QueuedByUiRestByWorker ==
    \A j \in JobIds : \A w \in writers[j] : (w[2] = "queued") <=> (w[1] = "ui")

C22_Witness ==
    \E j \in JobIds : {<<"ui", "queued">>, <<"worker", "running">>, <<"worker", "error">>} \subseteq writers[j]

\* C26 as stated: the worker runs the job's operation exactly once before it records
\* done or error, and marks the queue item done exactly once
C26_DispatchedOnce ==
    /\ worker.pc \in {"record", "task_done"} => worker.runs = 1
    /\ worker.task_done <= 1

StatusRank(st) ==
    CASE st = "none" -> 0 [] st = "queued" -> 1 [] st = "running" -> 2 [] OTHER -> 3

\* C27 as stated: a job's status only moves forward: queued, running, then done or error
C27_StatusOnlyForward ==
    [][\A j \in JobIds : StatusRank(job_res'[j]) >= StatusRank(job_res[j])]_vars

(***************************************************************************)
(* Properties of the price-improvement loop (SpecImprove)                  *)
(***************************************************************************)
ImproveRunning == sel.fn = "place_uvix_put_plus_order"
RECURSIVE Sum(_, _)
Sum(f, n) == IF n = 0 THEN 0 ELSE f[n] + Sum(f, n - 1)
TotalBought == Sum([i \in 1 .. Len(sel.out.orders) |-> sel.out.orders[i].filled], Len(sel.out.orders))
WorkingOrders == {i \in 1 .. Len(sel.out.orders) : Working(sel.out.orders[i])}

\* C24 as stated: the loop re-prices only an order it has not observed Filled or cancelled;
\* before a replacement is placed the working order has been cancelled; the replacement's
\* limit is base + attempt ticks; there are at most max_improve_ticks replacements
C24_StopsOnFilledOrCancelled ==
    ImproveRunning =>
        /\ Len(sel.out.orders) - 1 <= sel.in.max_improve_ticks
        /\ sel.out.pc = "replace" =>
              /\ sel.out.seen \notin {"Filled", "Cancelled", "ApiCancelled"}
              /\ sel.out.orders[Len(sel.out.orders)].status # "Submitted"
        /\ \A i \in 2 .. Len(sel.out.orders) :
              sel.out.orders[i].limit =
                  (IF sel.in.ask # None THEN sel.in.ask.v ELSE sel.out.orders[i - 1].limit)
                  + (i - 1) * sel.in.tick

\* C28 as stated: at most one order is working at a time, and the quantity bought over
\* the original and its replacements never exceeds qty
C28_OneWorkingOrderQtyBounded ==
    ImproveRunning =>
        /\ Cardinality(WorkingOrders) <= 1
        /\ TotalBought <= sel.in.qty

(***************************************************************************)
(* Properties of the timeout handling (SpecTimeout)                        *)
(***************************************************************************)
\* C30: when resolve_option_fast, get_uvix_stock, pick_uvix_atm_put or build_uvix_put_contract
\* has returned or raised, the client's RequestTimeout is what it was before the call,
\* whatever the venue answered to each request in between
C30_RequestTimeoutRestored ==
    (sel.fn \in TimeoutFns /\ sel.out.pc \in {"returned", "raised"}) =>
        sel.out.RequestTimeout = sel.in.before

C30_Witness ==
    /\ sel.fn = "build_uvix_put_contract" /\ sel.out.pc = "raised"
    /\ sel.in.candidates = MaxCandidates /\ sel.out.left = 0
    /\ sel.out.saved_to = Num(35)
    /\ sel.in.before = Num(0) /\ sel.out.RequestTimeout = Num(0)

====
